---- MODULE Spec2Model ----
(***************************************************************************)
(* ORION decision-and-execution pipeline: Commander (executor), Approval   *)
(* Coordinator (human gate) and Brain (decision maker).                    *)
(*                                                                         *)
(* Every component is a subscriber whose handlers run to completion, one   *)
(* message at a time (bus.py subscribe loop), so each handler is one       *)
(* atomic action.  Wall-clock time is the variable now, advanced by Tick;  *)
(* datetime.now() / time.time() inside a handler read now.                 *)
(*                                                                         *)
(* Each component has its own specification (SpecCmd, SpecCoord,           *)
(* SpecBrain); the variables of the other components stay at their         *)
(* constructed values.                                                     *)
(***************************************************************************)
EXTENDS Integers, Sequences, FiniteSets, TLC

\* ------------------------------------------------------------------ bounds
\* last clock value
MaxTime == 1
\* approval_decision messages the Commander can be sent
NumApprovals == 2
\* approval_request messages the Approval Coordinator can be sent
NumRequests == 2
\* outcomes the Commander publishes before the model stops executing
MaxOutcomes == 2
\* incidents the Brain can be sent
MaxIncidents == 2
\* failures reported to the Brain's circuit breaker
MaxFailures == 3
\* publish calls that pass validation
MaxPublishes == 2
\* events the Guardian is sent
MaxEvents == 3
\* times the clock jumps by the circuit breaker's open duration
MaxWaits == 1
\* validations handed to aggregate_votes in one call
MaxValidations == 3
\* threads that call the Coordinator's operations
NumCallers == 2

\* ------------------------------------------------------------ Python values
\* Python None where a string is expected (missing dict key, Optional[str])
None == "None"
\* "no timestamp yet" where a time is expected
NoTime == -1

VARIABLES
    now,                    \* wall clock (seconds)
    cmd_safe_actions,       \* Commander.policy_loader._safe_actions
    cmd_pending_approvals,  \* Commander.pending_approvals, in insertion order
    cmd_last_outcome,       \* the outcome the latest handle_decision call published, if any
    cmd_exec_total,         \* execute_action calls so far
    cmd_approved_exec,      \* decision_id -> execute_action calls made under an approval
    cmd_refused_after_use,  \* decision ids refused after an approved execution for them
    cmd_delivered,          \* approval ids the bus has delivered
    cmd_decision_seen,      \* decision ids handled as REQUEST_APPROVAL with a proposed_action
    cmd_denied,             \* ids of the approval_decisions delivered with decision deny
    cmd_both_valid,         \* ids whose approval was approve/force and unexpired when the
                            \* later of decision and approval_decision was delivered
    co_telegram_chat_id,    \* AdminIdentity.telegram_chat_id
    co_cli_identity,        \* AdminIdentity.cli_identity
    co_pending_approvals,   \* ApprovalCoordinator.pending_approvals: request id -> request
    co_decisions_made,      \* request id -> decisions stored in ApprovalCoordinator.decisions so far
    co_published,           \* request id -> approval_decisions published to the bus so far
    co_ingested,            \* approval_request ids the bus has delivered
    co_last,                \* the latest admin call: what was asked, what it returned
    br_autonomy_level,      \* Brain.autonomy_level
    br_safe_actions,        \* Brain.policy_loader._safe_actions
    br_risky_actions,       \* Brain.policy_loader._risky_actions
    br_cooldown,            \* Brain.policy_loader._cooldowns.get("acknowledge_incident")
    br_council,             \* which of council / council_validator / external_validator are set
    br_last_execution,      \* Brain.cooldown_tracker._last_execution of acknowledge_incident
    br_cb_failures,         \* Brain.circuit_breaker._failures of acknowledge_incident
    br_cb_opened,           \* Brain.circuit_breaker._circuit_opened of acknowledge_incident
    br_handled,             \* incidents handled so far
    br_last,                \* the latest handle_incident call: what it decided and published
    cb_failure_threshold,   \* CircuitBreaker.failure_threshold
    cb_failure_window,      \* CircuitBreaker.failure_window
    cb_circuit_open_duration, \* CircuitBreaker.circuit_open_duration
    cb_failures,            \* CircuitBreaker._failures: action type -> failure timestamps
    cb_circuit_opened,      \* CircuitBreaker._circuit_opened: action type -> opening time
    cb_last,                \* the latest CircuitBreaker call: what was asked, what it returned
    ct_last_execution,      \* CooldownTracker._last_execution: (action type, key) -> time
    ct_last,                \* the latest CooldownTracker call: what was asked, what it returned
    bus_streams,            \* redis streams: contract kind -> entries (JSON texts)
    bus_passed,             \* contract kind -> messages whose publish passed validation, in call order
    bus_returned,           \* contract kind -> messages whose publish returned, in call order
    bus_last,               \* the latest publish call: its arguments, its outcome, the streams it found
    sub_group_created,      \* the consumer group exists on the event stream
    sub_last_delivered,     \* the group's last-delivered entry
    sub_pending,            \* the group's pending entries (delivered, not acknowledged)
    sub_pc,                 \* consumer -> where its subscribe call is
    sub_batch,              \* consumer -> entries of its last xreadgroup not yet handled
    sub_dispatched,         \* entry -> handler calls made for it
    sub_raised,             \* entries whose handler raised
    sub_acked,              \* entry -> xack calls that removed it from the pending list
    sub_read,               \* entry -> xreadgroup calls that returned it
    \* ConsensusAggregator (src/core/council/consensus_aggregator.py)
    cn_last,                \* the last validate_decision call and what it returned
    \* Guardian (src/core/guardian/guardian.py)
    gd_correlation_window,  \* correlation_window
    gd_event_buffer,        \* _event_buffer
    gd_incident_fingerprints, \* keys of _incident_fingerprints
    gd_published,           \* the incidents the bus accepted, oldest first
    gd_last,                \* the last handle_event call
    \* Commander.handle_decision taken alone
    hd_call,                \* the last call: what it was given and what it did
    \* Commander.execute_action taken alone
    ex_call,                \* the last call: the action and the outcomes returned
    \* Commander.run
    run_pc,                 \* where the run() call is
    run_published,          \* stream -> number of messages published to it
    run_delivered,          \* stream -> what the handler did on each message handed to it
    \* executions of acknowledge_incident that did not succeed
    lp_failed,              \* the times of the failed and rolled_back outcomes
    \* ExternalValidator._retry_with_backoff
    rt_call,                \* the call in progress or the last one made
    \* approval requests on their way from the Brain to the Commander
    xp_expires_at,          \* request id -> expires_at of the approval_request ingested
    \* ApprovalCoordinator, its operations on one request called from several
    \* threads, one statement at a time
    rc_pending,             \* the request is in pending_approvals
    rc_expires_at,          \* the request's expires_at
    rc_decisions,           \* decisions[approval_request_id], or NoSettled
    rc_published,           \* approval_decisions published, in order
    rc_escalated,           \* number of _escalate_timeout calls for the request
    rc_calls                \* thread -> operation it runs and where it stands

cmd_vars == <<cmd_safe_actions, cmd_pending_approvals, cmd_last_outcome,
              cmd_exec_total, cmd_approved_exec, cmd_refused_after_use,
              cmd_delivered, cmd_decision_seen, cmd_both_valid, cmd_denied>>

co_vars == <<co_telegram_chat_id, co_cli_identity, co_pending_approvals,
             co_decisions_made, co_published, co_ingested, co_last>>

br_vars == <<br_autonomy_level, br_safe_actions, br_risky_actions, br_cooldown,
             br_council, br_last_execution, br_cb_failures, br_cb_opened,
             br_handled, br_last>>

cb_vars == <<cb_failure_threshold, cb_failure_window, cb_circuit_open_duration,
             cb_failures, cb_circuit_opened, cb_last>>

ct_vars == <<ct_last_execution, ct_last>>

\* the components of the decision pipeline, and the ones beside it
pipeline_vars == <<cmd_vars, co_vars, br_vars>>
bus_vars == <<bus_streams, bus_passed, bus_returned, bus_last>>

sub_vars == <<sub_group_created, sub_last_delivered, sub_pending, sub_pc, sub_batch,
              sub_dispatched, sub_raised, sub_acked, sub_read>>

cn_vars == <<cn_last>>

gd_vars == <<gd_correlation_window, gd_event_buffer, gd_incident_fingerprints,
             gd_published, gd_last>>

hd_vars == <<hd_call>>

ex_vars == <<ex_call>>

run_vars == <<run_pc, run_published, run_delivered>>

lp_vars == <<lp_failed>>

rt_vars == <<rt_call>>

\* the parts studied on their own
xp_vars == <<xp_expires_at>>

rc_vars == <<rc_pending, rc_expires_at, rc_decisions, rc_published, rc_escalated,
             rc_calls>>

more_vars == <<rt_vars, xp_vars, rc_vars>>

ext_vars == <<cb_vars, ct_vars, bus_vars, sub_vars, cn_vars, gd_vars, hd_vars, ex_vars,
              run_vars, lp_vars, more_vars>>

vars == <<now, pipeline_vars, ext_vars>>

\* ======================================================================
\* Commander  (src/core/commander/commander.py)
\* ======================================================================

DecisionTypes == {"NO_ACTION", "EXECUTE_SAFE_ACTION", "REQUEST_APPROVAL"}
ApprovalKinds == {"approve", "deny", "force"}

\* approval_request_id / decision_id / approval_id are UUIDs minted once per
\* request (brain.py:501), decision (brain.py:132) and approval
\* (approval_coordinator.py:396); approval k answers request k of decision k.
ApprovalIds == 1..NumApprovals
DecisionIds == 1..NumApprovals

\* proposed_action of a decision: None, or action_type plus whether
\* "parameters" is a dict (params_ok) or a value without .get
NoProposedAction == [action_type |-> None, params_ok |-> FALSE]
ProposedActions ==
    {NoProposedAction,
     [action_type |-> "acknowledge_incident", params_ok |-> TRUE],
     [action_type |-> "acknowledge_incident", params_ok |-> FALSE],
     [action_type |-> "restart_service", params_ok |-> TRUE]}

\* decision contracts on the decision stream
DecisionMsgs ==
    [decision_id : DecisionIds, decision_type : DecisionTypes,
     proposed_action : ProposedActions]

\* dict[key] = value on an insertion-ordered dict keyed by approval_request_id
DictSet(d, rec) ==
    IF \E i \in 1..Len(d) : d[i].approval_request_id = rec.approval_request_id
    THEN [i \in 1..Len(d) |->
            IF d[i].approval_request_id = rec.approval_request_id THEN rec ELSE d[i]]
    ELSE Append(d, rec)

\* the sequence without its i-th entry
RemoveAt(d, i) == SubSeq(d, 1, i - 1) \o SubSeq(d, i + 1, Len(d))

\* index of the first entry satisfying a field test, 0 when there is none
FirstIndex(d, field, v) ==
    IF \E i \in 1..Len(d) : d[i][field] = v
    THEN CHOOSE i \in 1..Len(d) :
            /\ d[i][field] = v
            /\ \A j \in 1..(i - 1) : d[j][field] # v
    ELSE 0

\* datetime.now(timezone.utc) >= expires_at
Expired_Strict(expires_at, t) == t > expires_at
Expired(expires_at, t) == t >= expires_at

\* Commander._execute_acknowledge_incident and _rollback_acknowledge_incident:
\* both read action["parameters"].get, which raises when parameters is no dict
execute_acknowledge_incident(action) ==
    IF action.params_ok THEN "result" ELSE "raises"
rollback_acknowledge_incident_Quiet(action) == "done"
rollback_acknowledge_incident(action) ==
    IF action.params_ok THEN "done" ELSE "raises"

\* Commander.execute_action with what _create_outcome puts into the outcome:
\* status, whether it carries a result, the code of its error object (None
\* without one), rollback_executed and execution_time_ms
execute_action_outcome(action, execution_time_ms) ==
    LET executed == IF action.action_type = "acknowledge_incident"
                    THEN execute_acknowledge_incident(action)
                    ELSE "raises"     \* ValueError("Unknown action type")
        rolled_back == IF action.action_type = "acknowledge_incident"
                       THEN rollback_acknowledge_incident(action)
                       ELSE "done"    \* nothing to undo
        status == IF executed # "raises" THEN "succeeded"
                  ELSE IF rolled_back # "raises" THEN "rolled_back"
                  ELSE "failed"
    IN [status |-> status,
        has_result |-> executed # "raises",
        error_code |-> IF executed = "raises" THEN "EXECUTION_FAILED" ELSE None,
        rollback_executed |-> status = "rolled_back",
        execution_time_ms |-> execution_time_ms]

\* Commander.execute_action: status of the outcome it returns
execute_action(action) ==
    execute_action_outcome(action, 0).status

\* Commander._create_action; approval_id is the one handle_decision attaches,
\* 0 when the action carries none
create_action(decision, approval_id) ==
    [decision_id |-> decision.decision_id,
     action_type |-> decision.proposed_action.action_type,
     params_ok   |-> decision.proposed_action.params_ok,
     approval_id |-> approval_id]

\* Commander._create_outcome; decision_type records which branch of
\* handle_decision produced the action
create_outcome(action, decision_type) ==
    [action |-> action, status |-> execute_action(action),
     decision_type |-> decision_type]

\* Commander.handle_approval_decision: the stored map after the call
StoreApproval_AnyKind(pending, msg, t) ==
    IF Expired(msg.expires_at, t) THEN pending ELSE DictSet(pending, msg)
StoreApproval(pending, msg, t) ==
    IF msg.decision \notin {"approve", "force"} THEN pending
    ELSE IF Expired(msg.expires_at, t) THEN pending
    ELSE DictSet(pending, msg)

\* Commander._validate_approval: index of the approval it returns (0 = None)
\* and the map it leaves behind
validate_approval(pending, decision_id, t) ==
    LET i == FirstIndex(pending, "decision_id", decision_id) IN
    IF i = 0 THEN [idx |-> 0, pending |-> pending]
    ELSE IF Expired(pending[i].expires_at, t)
         THEN [idx |-> 0,
               pending |-> RemoveAt(pending,
                              FirstIndex(pending, "approval_id", pending[i].approval_id))]
         ELSE [idx |-> i, pending |-> pending]

\* handle_decision, "Remove approval after use": del pending[approval_request_id]
ConsumeApproval_Keep(pending, approval) == pending
ConsumeApproval(pending, approval) ==
    LET i == FirstIndex(pending, "approval_request_id", approval.approval_request_id) IN
    IF i = 0 THEN pending ELSE RemoveAt(pending, i)

NoOutcome ==
    [action |-> [decision_id |-> 0, action_type |-> None, params_ok |-> FALSE,
                 approval_id |-> 0],
     status |-> None, decision_type |-> None]

\* Commander.__init__ with a policy whose SAFE set is safe_actions
CommanderConstructed(safe_actions) ==
    /\ cmd_safe_actions = safe_actions
    /\ cmd_pending_approvals = <<>>
    /\ cmd_last_outcome = NoOutcome
    /\ cmd_exec_total = 0
    /\ cmd_approved_exec = [d \in DecisionIds |-> 0]
    /\ cmd_refused_after_use = {}
    /\ cmd_delivered = {}
    /\ cmd_decision_seen = {}
    /\ cmd_both_valid = {}
    /\ cmd_denied = {}

\* the clock advances between two handler runs
Tick ==
    /\ now < MaxTime
    /\ now' = now + 1
    /\ UNCHANGED <<cmd_vars, co_vars, br_vars, ext_vars>>

\* the bus delivers the next approval_decision of the stream to
\* handle_approval_decision: each entry once, in stream order (ids number the
\* entries of the stream)
Commander_handle_approval_decision ==
    \E k \in {Cardinality(cmd_delivered) + 1} \cap ApprovalIds,
       kind \in ApprovalKinds, exp \in 0..MaxTime :
        LET msg == [approval_id |-> k, approval_request_id |-> k, decision_id |-> k,
                    decision |-> kind, expires_at |-> exp] IN
        /\ cmd_delivered' = cmd_delivered \cup {k}
        /\ cmd_both_valid' =
              IF k \in cmd_decision_seen /\ kind \in {"approve", "force"} /\ exp > now
              THEN cmd_both_valid \cup {k} ELSE cmd_both_valid
        /\ cmd_denied' = IF kind = "deny" THEN cmd_denied \cup {k} ELSE cmd_denied
        /\ cmd_pending_approvals' = StoreApproval(cmd_pending_approvals, msg, now)
        /\ UNCHANGED <<now, cmd_safe_actions, cmd_last_outcome, cmd_exec_total,
                       cmd_approved_exec, cmd_refused_after_use, cmd_decision_seen>>
        /\ UNCHANGED <<co_vars, br_vars, ext_vars>>

\* execute the action and publish the outcome; bus.publish may raise, which
\* handle_decision logs and swallows
ExecuteAndPublish(action, decision_type) ==
    /\ cmd_exec_total' = cmd_exec_total + 1
    /\ \E publish_ok \in BOOLEAN :
          cmd_last_outcome' = IF publish_ok THEN create_outcome(action, decision_type)
                              ELSE NoOutcome

\* the call returns without executing anything
Refuse ==
    /\ cmd_last_outcome' = NoOutcome
    /\ UNCHANGED <<cmd_exec_total, cmd_approved_exec>>

\* handle_decision, "Verify action is SAFE": policy_loader.is_safe(action_type)
verified_safe_Claimed(decision, safe_actions) ==
    decision.safety_classification = "SAFE"
verified_safe_Always(decision, safe_actions) == TRUE
verified_safe(decision, safe_actions) ==
    decision.proposed_action.action_type \in safe_actions

\* Commander.handle_decision: the branch a call takes, given the SAFE set and
\* the approvals stored when the decision arrives at time t
handle_decision_branch(decision, safe_actions, pending, t) ==
    IF decision.proposed_action = NoProposedAction THEN "no proposed_action"
    ELSE IF decision.decision_type = "EXECUTE_SAFE_ACTION"
    THEN IF ~verified_safe(decision, safe_actions) THEN "not SAFE"
         ELSE "execute"
    ELSE IF decision.decision_type = "REQUEST_APPROVAL"
    THEN IF validate_approval(pending, decision.decision_id, t).idx = 0
         THEN "no valid approval"
         ELSE "execute approved"
    ELSE "ignored"

\* the bus delivers a decision to handle_decision
Commander_handle_decision ==
    \E decision \in DecisionMsgs :
        LET requests == /\ decision.decision_type = "REQUEST_APPROVAL"
                        /\ decision.proposed_action # NoProposedAction
            first == requests /\ decision.decision_id \notin cmd_decision_seen
            branch == handle_decision_branch(decision, cmd_safe_actions,
                                             cmd_pending_approvals, now)
            v == validate_approval(cmd_pending_approvals, decision.decision_id, now)
        IN
        /\ cmd_exec_total < MaxOutcomes
        /\ cmd_decision_seen' = IF requests
                                THEN cmd_decision_seen \cup {decision.decision_id}
                                ELSE cmd_decision_seen
        /\ cmd_both_valid' =
              IF /\ first
                 /\ decision.decision_id \in cmd_delivered
                 /\ \E i \in 1..Len(cmd_pending_approvals) :
                       /\ cmd_pending_approvals[i].approval_id = decision.decision_id
                       /\ cmd_pending_approvals[i].expires_at > now
              THEN cmd_both_valid \cup {decision.decision_id}
              ELSE cmd_both_valid
        /\ IF branch = "execute"
           THEN /\ ExecuteAndPublish(create_action(decision, 0), decision.decision_type)
                /\ UNCHANGED <<cmd_pending_approvals, cmd_approved_exec,
                               cmd_refused_after_use>>
           ELSE IF branch = "no valid approval"
           THEN /\ Refuse
                /\ cmd_pending_approvals' = v.pending
                /\ cmd_refused_after_use' =
                      IF cmd_approved_exec[decision.decision_id] > 0
                      THEN cmd_refused_after_use \cup {decision.decision_id}
                      ELSE cmd_refused_after_use
           ELSE IF branch = "execute approved"
           THEN LET approval == cmd_pending_approvals[v.idx] IN
                /\ ExecuteAndPublish(create_action(decision, approval.approval_id),
                                     decision.decision_type)
                /\ cmd_approved_exec' =
                      [cmd_approved_exec EXCEPT ![decision.decision_id] = @ + 1]
                /\ cmd_pending_approvals' = ConsumeApproval(v.pending, approval)
                /\ UNCHANGED cmd_refused_after_use
           ELSE \* no proposed_action, not SAFE, or a decision type that is ignored
                Refuse /\ UNCHANGED <<cmd_pending_approvals, cmd_refused_after_use>>
        /\ UNCHANGED <<now, cmd_safe_actions, cmd_delivered, cmd_denied>>
        /\ UNCHANGED <<co_vars, br_vars, ext_vars>>

\* ----------------------------------------------------------------------
\* Commander.handle_decision taken alone: one call on a decision that carries
\* its safety_classification, against a SAFE set and stored approvals
\* ----------------------------------------------------------------------

\* decision contracts with the safety_classification the sender put into them
ClassifiedDecisions ==
    [decision_id : DecisionIds, decision_type : DecisionTypes,
     safety_classification : {"SAFE", "RISKY"}, proposed_action : ProposedActions]

\* SAFE sets of the Commander's policy
SafeSets == {{}, {"acknowledge_incident"}}

\* pending_approvals when the decision arrives: empty, or the approval of
\* decision 1
StoredApprovals ==
    {<<>>} \cup
    {<<[approval_id |-> 1, approval_request_id |-> 1, decision_id |-> 1,
        decision |-> kind, expires_at |-> exp]>> :
        kind \in {"approve", "force"}, exp \in 1..MaxTime}

\* the outcome handle_decision hands to bus.publish, NoOutcome when it
\* returns without executing
decision_outcome(decision, safe_actions, pending, t) ==
    LET branch == handle_decision_branch(decision, safe_actions, pending, t)
        v == validate_approval(pending, decision.decision_id, t)
    IN
    IF branch = "execute"
    THEN create_outcome(create_action(decision, 0), decision.decision_type)
    ELSE IF branch = "execute approved"
    THEN create_outcome(create_action(decision, pending[v.idx].approval_id),
                        decision.decision_type)
    ELSE NoOutcome

NoDecisionCall ==
    [handled |-> FALSE, decision_type |-> None, safety_classification |-> None,
     proposed_action |-> NoProposedAction, safe_actions |-> {}, executed |-> FALSE,
     publish_ok |-> FALSE, outcome |-> NoOutcome]

DecisionCallConstructed ==
    hd_call = NoDecisionCall

\* Commander.handle_decision(decision)
Commander_handle_decision_alone ==
    \E decision \in ClassifiedDecisions, safe_actions \in SafeSets,
       pending \in StoredApprovals, publish_ok \in BOOLEAN :
       \E outcome \in {decision_outcome(decision, safe_actions, pending, now)} :
          /\ hd_call' = [handled |-> TRUE,
                         decision_type |-> decision.decision_type,
                         safety_classification |-> decision.safety_classification,
                         proposed_action |-> decision.proposed_action,
                         safe_actions |-> safe_actions,
                         executed |-> outcome # NoOutcome,
                         publish_ok |-> publish_ok,
                         outcome |-> IF publish_ok THEN outcome ELSE NoOutcome]
          /\ UNCHANGED <<now, pipeline_vars, cb_vars, ct_vars, bus_vars, sub_vars,
                         cn_vars, gd_vars, ex_vars, run_vars, lp_vars, more_vars>>

\* ----------------------------------------------------------------------
\* Commander.execute_action taken alone
\* ----------------------------------------------------------------------

\* the actions _create_action builds, with and without an approval_id
Actions ==
    [decision_id : DecisionIds,
     action_type : {"acknowledge_incident", "restart_service"},
     params_ok : BOOLEAN,
     approval_id : {0} \cup ApprovalIds]

\* milliseconds between the two time.time() readings of a call
ExecutionTimes == {0, 1, 250}

NoExecution ==
    [called |-> FALSE, at |-> NoTime,
     action |-> [decision_id |-> 0, action_type |-> None, params_ok |-> FALSE,
                 approval_id |-> 0],
     outcomes |-> <<>>]

ExecutionConstructed ==
    ex_call = NoExecution

\* Commander.execute_action(action): the outcomes the call returned
Commander_execute_action ==
    \E action \in Actions, execution_time_ms \in ExecutionTimes :
        /\ ex_call' = [called |-> TRUE, at |-> now, action |-> action,
                       outcomes |-> <<execute_action_outcome(action, execution_time_ms)>>]
        /\ UNCHANGED <<now, pipeline_vars, cb_vars, ct_vars, bus_vars, sub_vars,
                       cn_vars, gd_vars, hd_vars, run_vars, lp_vars, more_vars>>

\* ----------------------------------------------------------------------
\* Commander.handle_decision on the decision the Brain published
\* ----------------------------------------------------------------------

\* the bus delivers the decision the Brain published last, once, to the
\* handle_decision of a Commander that holds the Brain's policy and no
\* approval; hd_call records what the call did, ex_call what execute_action
\* returned (the decision_id alone when nothing was executed)
Commander_handle_published_decision ==
    /\ br_last.published
    /\ ~(ex_call.called /\ ex_call.action.decision_id = br_last.decision.decision_id)
    /\ \E publish_ok \in BOOLEAN, execution_time_ms \in ExecutionTimes :
          LET decision == br_last.decision
              branch == handle_decision_branch(decision, br_safe_actions, <<>>, now)
              outcome == decision_outcome(decision, br_safe_actions, <<>>, now)
          IN
          /\ hd_call' = [handled |-> TRUE,
                         decision_type |-> decision.decision_type,
                         safety_classification |-> decision.safety_classification,
                         proposed_action |-> decision.proposed_action,
                         safe_actions |-> br_safe_actions,
                         executed |-> outcome # NoOutcome,
                         publish_ok |-> publish_ok,
                         outcome |-> IF publish_ok THEN outcome ELSE NoOutcome]
          /\ ex_call' =
                IF branch = "execute"
                THEN [called |-> TRUE, at |-> now, action |-> create_action(decision, 0),
                      outcomes |-> <<execute_action_outcome(create_action(decision, 0),
                                                            execution_time_ms)>>]
                ELSE [called |-> TRUE, at |-> now,
                      action |-> [NoExecution.action EXCEPT
                                     !.decision_id = decision.decision_id],
                      outcomes |-> <<>>]
    /\ UNCHANGED <<now, pipeline_vars, cb_vars, ct_vars, bus_vars, sub_vars,
                   cn_vars, gd_vars, run_vars, lp_vars, more_vars>>

\* ----------------------------------------------------------------------
\* Commander.handle_decision on EXECUTE_SAFE_ACTION decisions of any producer
\* ----------------------------------------------------------------------

FailuresConstructed ==
    lp_failed = <<>>

\* handle_decision on an EXECUTE_SAFE_ACTION decision that proposes
\* acknowledge_incident, by a Commander that holds the Brain's policy;
\* lp_failed collects the times of the outcomes with status failed or
\* rolled_back
Commander_handle_safe_decision ==
    /\ Len(lp_failed) < MaxFailures
    /\ \E decision \in ClassifiedDecisions, publish_ok \in BOOLEAN :
          /\ decision.decision_type = "EXECUTE_SAFE_ACTION"
          /\ decision.safety_classification = "SAFE"
          /\ decision.proposed_action # NoProposedAction
          /\ decision.proposed_action.action_type = "acknowledge_incident"
          /\ \E outcome \in {decision_outcome(decision, br_safe_actions, <<>>, now)} :
                /\ hd_call' = [handled |-> TRUE,
                               decision_type |-> decision.decision_type,
                               safety_classification |-> decision.safety_classification,
                               proposed_action |-> decision.proposed_action,
                               safe_actions |-> br_safe_actions,
                               executed |-> outcome # NoOutcome,
                               publish_ok |-> publish_ok,
                               outcome |-> IF publish_ok THEN outcome ELSE NoOutcome]
                /\ lp_failed' =
                      IF /\ outcome # NoOutcome
                         /\ outcome.action.action_type = "acknowledge_incident"
                         /\ outcome.status \in {"failed", "rolled_back"}
                      THEN Append(lp_failed, now)
                      ELSE lp_failed
    /\ UNCHANGED <<now, pipeline_vars, cb_vars, ct_vars, bus_vars, sub_vars,
                   cn_vars, gd_vars, ex_vars, run_vars, more_vars>>

\* ======================================================================
\* Approval Coordinator  (src/core/approval/approval_coordinator.py,
\*                        src/core/approval/admin_identity.py)
\* ======================================================================

\* Python values an identity can be: None, an int or a str.  YAML gives
\* telegram_chat_id as an int when written 12345 and as a str when quoted.
PyNone == <<"none">>
PyInt(n) == <<"int", n>>
PyText(s) == <<"str", s>>

\* Python ==  on None / int / str values
PyEq(a, b) ==
    IF a[1] # b[1] THEN FALSE
    ELSE IF a[1] = "none" THEN TRUE
    ELSE a[2] = b[2]

\* Python str(v)
str(v) ==
    IF v[1] = "none" THEN "None"
    ELSE IF v[1] = "int" THEN ToString(v[2])
    ELSE v[2]

\* admin configurations (telegram_chat_id, cli_identity) that _load_config accepts
AdminConfigs ==
    {[telegram_chat_id |-> PyText("12345"), cli_identity |-> PyText("admin_user")],
     [telegram_chat_id |-> PyInt(12345),    cli_identity |-> PyNone],
     [telegram_chat_id |-> PyNone,          cli_identity |-> PyText("admin_user")]}

\* (channel, admin_identity) arguments of approve / deny / force
AdminCalls ==
    {[channel |-> "telegram", admin_identity |-> PyText("12345")],
     [channel |-> "telegram", admin_identity |-> PyInt(12345)],
     [channel |-> "telegram", admin_identity |-> PyText("99999")],
     [channel |-> "cli",      admin_identity |-> PyText("admin_user")],
     [channel |-> "cli",      admin_identity |-> PyText("12345")],
     [channel |-> "sms",      admin_identity |-> PyText("admin_user")]}

\* reason arguments, as sequences of characters: empty, blank, two letters
\* padded to twelve characters, and a justification of thirteen letters
Reasons ==
    {<<>>,
     <<" ", " ", " ">>,
     <<" ", " ", " ", " ", " ", "o", "k", " ", " ", " ", " ", " ">>,
     <<"d", "i", "s", "k", " ", "i", "s", " ", "f", "u", "l", "l", "!">>}

\* approval_timeout arguments: None, 0 and one second
ApprovalTimeouts == {NoTime, 0, 1}

\* ApprovalCoordinator.default_approval_timeout
default_approval_timeout == 300
\* shortest stripped reason force accepts
MinForceReason == 10

\* str.strip()
IsSpace(c) == c \in {" ", "\t", "\n"}
strip(s) ==
    IF \A i \in 1..Len(s) : IsSpace(s[i]) THEN <<>>
    ELSE LET first == CHOOSE i \in 1..Len(s) :
                         ~IsSpace(s[i]) /\ \A j \in 1..(i - 1) : IsSpace(s[j])
             last  == CHOOSE i \in 1..Len(s) :
                         ~IsSpace(s[i]) /\ \A j \in (i + 1)..Len(s) : IsSpace(s[j])
         IN SubSeq(s, first, last)

\* approve / deny: "not reason or len(reason.strip()) == 0"
reason_missing(reason) == Len(reason) = 0 \/ Len(strip(reason)) = 0
\* force: "not reason or len(reason.strip()) < 10"
force_reason_missing_Long(reason) == Len(reason) = 0 \/ Len(strip(reason)) < 20
force_reason_missing(reason) == Len(reason) = 0 \/ Len(strip(reason)) < MinForceReason

\* "approval_timeout or self.default_approval_timeout"
timeout_or_default(approval_timeout) ==
    IF approval_timeout = NoTime \/ approval_timeout = 0
    THEN default_approval_timeout
    ELSE approval_timeout

\* approval_request ids: request r asks about decision r
ReqIds == 1..NumRequests

\* an approval_request as the coordinator keeps it; NoRequest = key absent
NoRequest == [decision_id |-> 0, expires_at |-> NoTime]

\* AdminIdentity.verify_telegram
verify_telegram_Any(chat_id) == TRUE
verify_telegram(chat_id) ==
    IF co_telegram_chat_id = PyNone THEN FALSE
    ELSE str(chat_id) = str(co_telegram_chat_id)

\* AdminIdentity.verify_cli
verify_cli(identity) ==
    IF co_cli_identity = PyNone THEN FALSE
    ELSE PyEq(identity, co_cli_identity)

\* AdminIdentity.get_admin_identity
get_admin_identity(channel) ==
    IF channel = "telegram" THEN co_telegram_chat_id
    ELSE IF channel = "cli" THEN co_cli_identity
    ELSE PyNone

\* the identity check that opens approve, deny and force
verify_identity(call) ==
    IF call.channel = "telegram" THEN verify_telegram(call.admin_identity)
    ELSE IF call.channel = "cli" THEN verify_cli(call.admin_identity)
    ELSE FALSE

\* ApprovalCoordinator._create_approval_decision; approval_id is a fresh
\* uuid, written as the number of the request it answers; overrides is <<>>
\* unless the decision is a force, has_action_id tells whether action_id is
\* set, source keeps the channel of "orion-approval-<channel>"
NoDecision ==
    [approval_id |-> 0, approval_request_id |-> 0, decision_id |-> 0,
     decision |-> None, admin_identity |-> PyNone, source |-> None,
     issued_at |-> NoTime, expires_at |-> NoTime, overrides |-> <<>>,
     has_action_id |-> FALSE]
create_approval_decision(r, request, decision_type, call, approval_timeout, override_circuit_breaker, override_cooldown, t) ==
    [approval_id         |-> r,
     approval_request_id |-> r,
     decision_id         |-> request.decision_id,
     decision            |-> decision_type,
     admin_identity      |-> call.admin_identity,
     source              |-> call.channel,
     issued_at           |-> t,
     expires_at          |-> t + approval_timeout,
     overrides           |-> IF decision_type = "force"
                             THEN <<override_circuit_breaker, override_cooldown>>
                             ELSE <<>>,
     has_action_id       |-> decision_type \in {"approve", "force"}]

\* "del self.pending_approvals[approval_request_id]"
RemovePending_Keep(pending, r) == pending
RemovePending(pending, r) == [pending EXCEPT ![r] = NoRequest]

\* ApprovalCoordinator.__init__ under an admin configuration
CoordinatorConstructed(config) ==
    /\ co_telegram_chat_id = config.telegram_chat_id
    /\ co_cli_identity = config.cli_identity
    /\ co_pending_approvals = [r \in ReqIds |-> NoRequest]
    /\ co_decisions_made = [r \in ReqIds |-> 0]
    /\ co_published = [r \in ReqIds |-> 0]
    /\ co_ingested = {}
    /\ co_last = [op |-> None, approval_request_id |-> 0, verified |-> FALSE,
                  was_pending |-> FALSE, expired |-> FALSE, reason_length |-> NoTime,
                  ret |-> NoDecision, published |-> FALSE]

\* ApprovalCoordinator.handle_approval_request on request r
handle_approval_request(r, expires_at) ==
    /\ co_ingested' = co_ingested \cup {r}
    /\ co_pending_approvals' =
          IF Expired(expires_at, now) THEN co_pending_approvals
          ELSE [co_pending_approvals EXCEPT
                   ![r] = [decision_id |-> r, expires_at |-> expires_at]]
    /\ co_last' = [op |-> "handle_approval_request", approval_request_id |-> r,
                   verified |-> FALSE, was_pending |-> FALSE,
                   expired |-> Expired(expires_at, now), reason_length |-> NoTime,
                   ret |-> NoDecision, published |-> FALSE]
    /\ UNCHANGED <<co_telegram_chat_id, co_cli_identity, co_decisions_made,
                   co_published>>

\* the bus delivers the next approval_request of the stream to
\* handle_approval_request: each entry once, in stream order
Coordinator_handle_approval_request ==
    \E r \in {Cardinality(co_ingested) + 1} \cap ReqIds, expires_at \in 0..MaxTime :
        /\ handle_approval_request(r, expires_at)
        /\ UNCHANGED <<now, cmd_vars, br_vars, ext_vars>>

\* the reason argument of a call that returned before reading it
Unread == <<"unread">>

\* the number of characters of the reason.strip() a call was rejected for,
\* NoTime for a reason not read
stripped_length(reason) == IF reason = Unread THEN NoTime ELSE Len(strip(reason))

\* an admin call that returns None
ReturnNone(op, r, verified, was_pending, expired, reason) ==
    /\ co_last' = [op |-> op, approval_request_id |-> r, verified |-> verified,
                   was_pending |-> was_pending, expired |-> expired,
                   reason_length |-> stripped_length(reason),
                   ret |-> NoDecision, published |-> FALSE]
    /\ UNCHANGED <<co_decisions_made, co_published>>

\* an admin call that creates, stores and publishes a decision and returns it;
\* bus.publish may raise, which the call logs and swallows
ReturnDecision(op, r, call, expired, approval_timeout, override_circuit_breaker, override_cooldown) ==
    LET decision == create_approval_decision(
                        r, co_pending_approvals[r], op, call,
                        approval_timeout, override_circuit_breaker,
                        override_cooldown, now) IN
    /\ co_decisions_made' = [co_decisions_made EXCEPT ![r] = @ + 1]
    /\ co_pending_approvals' = RemovePending(co_pending_approvals, r)
    /\ \E publish_ok \in BOOLEAN :
          /\ co_published' = IF publish_ok
                             THEN [co_published EXCEPT ![r] = @ + 1]
                             ELSE co_published
          /\ co_last' = [op |-> op, approval_request_id |-> r, verified |-> TRUE,
                         was_pending |-> TRUE, expired |-> expired,
                         reason_length |-> NoTime,
                         ret |-> decision, published |-> publish_ok]

\* ApprovalCoordinator.approve
Coordinator_approve ==
    \E r \in ReqIds, call \in AdminCalls :
        LET verified == verify_identity(call)
            was_pending == co_pending_approvals[r] # NoRequest
            expired == was_pending /\ Expired(co_pending_approvals[r].expires_at, now)
        IN
        /\ IF ~verified \/ ~was_pending
           THEN /\ ReturnNone("approve", r, verified, was_pending, expired, Unread)
                /\ UNCHANGED co_pending_approvals
           ELSE IF expired
           THEN /\ ReturnNone("approve", r, verified, was_pending, expired, Unread)
                /\ co_pending_approvals' = RemovePending(co_pending_approvals, r)
           ELSE \E reason \in Reasons :
                   IF reason_missing(reason)
                   THEN /\ ReturnNone("approve", r, verified, was_pending, expired, reason)
                        /\ UNCHANGED co_pending_approvals
                   ELSE \E approval_timeout \in ApprovalTimeouts :
                           ReturnDecision("approve", r, call, expired,
                                          timeout_or_default(approval_timeout),
                                          FALSE, FALSE)
        /\ UNCHANGED <<co_telegram_chat_id, co_cli_identity, co_ingested>>
        /\ UNCHANGED <<now, cmd_vars, br_vars, ext_vars>>

\* ApprovalCoordinator.deny
Coordinator_deny ==
    \E r \in ReqIds, call \in AdminCalls :
        LET verified == verify_identity(call)
            was_pending == co_pending_approvals[r] # NoRequest
            expired == was_pending /\ Expired(co_pending_approvals[r].expires_at, now)
        IN
        /\ IF ~verified \/ ~was_pending
           THEN /\ ReturnNone("deny", r, verified, was_pending, expired, Unread)
                /\ UNCHANGED co_pending_approvals
           ELSE \E reason \in Reasons :
                   IF reason_missing(reason)
                   THEN /\ ReturnNone("deny", r, verified, was_pending, expired, reason)
                        /\ UNCHANGED co_pending_approvals
                   ELSE ReturnDecision("deny", r, call, expired, 0, FALSE, FALSE)
        /\ UNCHANGED <<co_telegram_chat_id, co_cli_identity, co_ingested>>
        /\ UNCHANGED <<now, cmd_vars, br_vars, ext_vars>>

\* ApprovalCoordinator.force
Coordinator_force ==
    \E r \in ReqIds, call \in AdminCalls :
        LET verified == verify_identity(call)
            was_pending == co_pending_approvals[r] # NoRequest
            expired == was_pending /\ Expired(co_pending_approvals[r].expires_at, now)
        IN
        /\ IF ~verified \/ ~was_pending
           THEN /\ ReturnNone("force", r, verified, was_pending, expired, Unread)
                /\ UNCHANGED co_pending_approvals
           ELSE \E reason \in Reasons :
                   IF force_reason_missing(reason)
                   THEN /\ ReturnNone("force", r, verified, was_pending, expired, reason)
                        /\ UNCHANGED co_pending_approvals
                   ELSE \E approval_timeout \in ApprovalTimeouts, override \in BOOLEAN :
                           ReturnDecision("force", r, call, expired,
                                          timeout_or_default(approval_timeout),
                                          override, override)
        /\ UNCHANGED <<co_telegram_chat_id, co_cli_identity, co_ingested>>
        /\ UNCHANGED <<now, cmd_vars, br_vars, ext_vars>>

\* ApprovalCoordinator.check_expired_approvals
still_pending_Late(pending, t) ==
    [r \in ReqIds |->
        IF pending[r] # NoRequest /\ pending[r].expires_at < t
        THEN NoRequest ELSE pending[r]]
still_pending(pending, t) ==
    [r \in ReqIds |->
        IF pending[r] # NoRequest /\ Expired(pending[r].expires_at, t)
        THEN NoRequest ELSE pending[r]]

Coordinator_check_expired_approvals ==
    /\ co_pending_approvals' = still_pending(co_pending_approvals, now)
    /\ co_last' = [op |-> "check_expired_approvals", approval_request_id |-> 0,
                   verified |-> FALSE, was_pending |-> FALSE,
                   expired |-> co_pending_approvals' # co_pending_approvals,
                   reason_length |-> NoTime, ret |-> NoDecision, published |-> FALSE]
    /\ UNCHANGED <<co_telegram_chat_id, co_cli_identity, co_decisions_made,
                   co_published, co_ingested>>
    /\ UNCHANGED <<now, cmd_vars, br_vars, ext_vars>>

\* ======================================================================
\* Brain  (src/core/brain/brain.py, policy_loader.py, cooldown_tracker.py,
\*         circuit_breaker.py)
\* ======================================================================

AutonomyLevels == {"N0", "N2", "N3"}
Severities == {"low", "medium", "high", "critical"}

\* Brain.approval_timeout
approval_timeout == 300
\* CircuitBreaker.__init__ defaults of failure_threshold, failure_window and
\* circuit_open_duration; the Brain builds its breaker with them
failure_threshold == 3
failure_window == 300
circuit_open_duration == 600

\* policies a PolicyLoader can hold for the one action the Brain chooses:
\* SAFE, RISKY, listed as both, and not listed (also the state after a failed load)
Policies ==
    {[safe_actions |-> {"acknowledge_incident"}, risky_actions |-> {}],
     [safe_actions |-> {}, risky_actions |-> {"acknowledge_incident"}],
     [safe_actions |-> {"acknowledge_incident"},
      risky_actions |-> {"acknowledge_incident"}],
     [safe_actions |-> {}, risky_actions |-> {}]}

\* _cooldowns.get("acknowledge_incident"): no entry, or one second
Cooldowns == {NoTime, 1}

\* how the Brain was given its Council: council=None, council without both
\* validators, council with both validators
CouncilSetups == {"none", "validators_missing", "configured"}

\* what council.validate_decision does: returns a result, or raises
CouncilResults == {"APPROVED", "BLOCKED", "ESCALATE_TO_ADMIN", "raise"}

\* PolicyLoader.is_safe / is_risky / classify_action
is_safe(action_type) == action_type \in br_safe_actions
is_risky(action_type) == action_type \in br_risky_actions
classify_action_AllSafe(action_type) == "SAFE"
classify_action(action_type) ==
    IF is_safe(action_type) THEN "SAFE"
    ELSE IF is_risky(action_type) THEN "RISKY"
    ELSE "UNKNOWN"

\* CooldownTracker.check_cooldown: TRUE when the action may execute
check_cooldown_Free(last_execution, cooldown_seconds, t) == TRUE
check_cooldown_Late(last_execution, cooldown_seconds, t) ==
    IF cooldown_seconds = 0 THEN TRUE
    ELSE IF last_execution = NoTime THEN TRUE
    ELSE t - last_execution > cooldown_seconds
check_cooldown(last_execution, cooldown_seconds, t) ==
    IF cooldown_seconds = 0 THEN TRUE
    ELSE IF last_execution = NoTime THEN TRUE
    ELSE t - last_execution >= cooldown_seconds

\* CircuitBreaker.record_failure: the failure list and opening time it leaves
record_failure(failures, opened, t) ==
    LET kept == SelectSeq(Append(failures, t), LAMBDA ts : ts > t - cb_failure_window) IN
    [failures |-> kept,
     opened |-> IF Len(kept) >= cb_failure_threshold /\ opened = NoTime THEN t ELSE opened]

\* CircuitBreaker.record_success: clears the failure list, leaves the opening time
record_success_Closes(failures, opened) == [failures |-> <<>>, opened |-> NoTime]
record_success(failures, opened) == [failures |-> <<>>, opened |-> opened]

\* CircuitBreaker.is_open: its answer and the state it leaves
is_open_Never(failures, opened, t) ==
    [open |-> FALSE, failures |-> failures, opened |-> opened]
is_open(failures, opened, t) ==
    IF opened = NoTime
    THEN [open |-> FALSE, failures |-> failures, opened |-> opened]
    ELSE IF t - opened >= cb_circuit_open_duration
    THEN [open |-> FALSE, failures |-> <<>>, opened |-> NoTime]
    ELSE [open |-> TRUE, failures |-> failures, opened |-> opened]

\* Brain._determine_action_type
determine_action_type_HighOnly(incident) ==
    IF incident.severity \in {"high", "critical"}
    THEN "acknowledge_incident"
    ELSE None
determine_action_type(incident) ==
    IF incident.severity \in {"medium", "high", "critical"}
    THEN "acknowledge_incident"
    ELSE None

\* Brain._create_decision; reasoning is the list of its parts
create_decision(incident, decision_type, reasoning, safety_classification) ==
    [decision_id           |-> incident.incident_id,
     decision_type         |-> decision_type,
     safety_classification |-> safety_classification,
     requires_approval     |-> FALSE,
     reasoning             |-> <<reasoning>>,
     autonomy_level        |-> br_autonomy_level,
     proposed_action       |-> NoProposedAction]

\* decision["proposed_action"] = {"action_type": ..., "parameters": {...}}
with_proposed_action(decision, action_type) ==
    [decision EXCEPT !.proposed_action =
        [action_type |-> action_type, params_ok |-> TRUE]]

\* Brain._emit_approval_request: the approval_request it hands to the bus
NoApprovalRequest ==
    [approval_request_id |-> 0, timestamp |-> NoTime, decision_id |-> 0,
     action_type |-> None, expires_at |-> NoTime]
approval_request_for_NoTimeout(decision, t) ==
    [approval_request_id |-> decision.decision_id,
     timestamp           |-> t,
     decision_id         |-> decision.decision_id,
     action_type         |-> decision.proposed_action.action_type,
     expires_at          |-> t]
approval_request_for(decision, t) ==
    [approval_request_id |-> decision.decision_id,
     timestamp           |-> t,
     decision_id         |-> decision.decision_id,
     action_type         |-> decision.proposed_action.action_type,
     expires_at          |-> t + approval_timeout]

\* what a _decide_* call returns and leaves behind: the decision, the
\* tracker and breaker state, and the approval_request it emitted
Decided(decision, last_execution, breaker, request) ==
    [decision |-> decision, last_execution |-> last_execution,
     failures |-> breaker.failures, opened |-> breaker.opened, request |-> request]

\* the tracker and breaker as the call found them
Untouched == [failures |-> br_cb_failures, opened |-> br_cb_opened]

\* Brain._decide_n0
decide_n0(incident, t) ==
    Decided(create_decision(incident, "NO_ACTION", "n0_observe_only", "SAFE"),
            br_last_execution, Untouched, NoApprovalRequest)

\* the SAFE branch shared by _decide_n2 and _decide_n3: cooldown, circuit
\* breaker, then EXECUTE_SAFE_ACTION with the cooldown recorded
decide_safe(incident, action_type, t) ==
    LET cooldown == br_cooldown
        has_cooldown == cooldown # NoTime /\ cooldown # 0
        breaker == is_open(br_cb_failures, br_cb_opened, t)
    IN
    IF has_cooldown /\ ~check_cooldown(br_last_execution, cooldown, t)
    THEN Decided(create_decision(incident, "NO_ACTION", "cooldown_active", "SAFE"),
                 br_last_execution, Untouched, NoApprovalRequest)
    ELSE IF breaker.open
    THEN Decided(create_decision(incident, "NO_ACTION", "circuit_open", "SAFE"),
                 br_last_execution, breaker, NoApprovalRequest)
    ELSE Decided(with_proposed_action(
                     create_decision(incident, "EXECUTE_SAFE_ACTION",
                                     "safe_action", "SAFE"),
                     action_type),
                 IF has_cooldown THEN t ELSE br_last_execution,
                 breaker, NoApprovalRequest)

\* Brain._decide_n2
decide_n2(incident, t) ==
    LET action_type == determine_action_type(incident)
        classification == classify_action(action_type)
    IN
    IF action_type = None
    THEN Decided(create_decision(incident, "NO_ACTION", "no_action_needed", "SAFE"),
                 br_last_execution, Untouched, NoApprovalRequest)
    ELSE IF classification = "RISKY"
    THEN Decided(create_decision(incident, "NO_ACTION", "risky_forbidden_in_n2", "RISKY"),
                 br_last_execution, Untouched, NoApprovalRequest)
    ELSE IF classification = "UNKNOWN"
    THEN Decided(create_decision(incident, "NO_ACTION", "unknown_fail_closed", "UNKNOWN"),
                 br_last_execution, Untouched, NoApprovalRequest)
    ELSE decide_safe(incident, action_type, t)

\* Brain._decide_n3
decide_n3(incident, t) ==
    LET action_type == determine_action_type(incident)
        classification == classify_action(action_type)
    IN
    IF action_type = None
    THEN Decided(create_decision(incident, "NO_ACTION", "no_action_needed", "SAFE"),
                 br_last_execution, Untouched, NoApprovalRequest)
    ELSE IF classification \in {"UNKNOWN", "RISKY"}
    THEN LET decision ==
                 with_proposed_action(
                     [create_decision(incident, "REQUEST_APPROVAL",
                                      "risky_requires_approval", "RISKY")
                        EXCEPT !.requires_approval = TRUE],
                     action_type)
         IN Decided(decision, br_last_execution, Untouched,
                    approval_request_for(decision, t))
    ELSE decide_safe(incident, action_type, t)

\* Brain.decide
decide_AsN3(incident, t) ==
    IF br_autonomy_level = "N2" THEN decide_n2(incident, t) ELSE decide_n3(incident, t)
decide(incident, t) ==
    IF br_autonomy_level = "N0" THEN decide_n0(incident, t)
    ELSE IF br_autonomy_level = "N2" THEN decide_n2(incident, t)
    ELSE IF br_autonomy_level = "N3" THEN decide_n3(incident, t)
    ELSE decide_n0(incident, t)

\* the BLOCKED and the except branch of _validate_with_council
blocked_by_council(decision, critique) ==
    [decision EXCEPT !.decision_type = "NO_ACTION",
                     !.reasoning = <<"BLOCKED BY COUNCIL", critique>> \o @,
                     !.proposed_action = NoProposedAction]

\* Brain._validate_with_council; result is what validate_decision does
validate_with_council_FailOpen(decision, result) ==
    IF br_council = "configured" /\ result = "BLOCKED"
    THEN blocked_by_council(decision, "critique")
    ELSE decision
validate_with_council(decision, result) ==
    IF br_council = "none" THEN decision
    ELSE IF br_council = "validators_missing" THEN decision
    ELSE IF result = "BLOCKED" THEN blocked_by_council(decision, "critique")
    ELSE IF result = "ESCALATE_TO_ADMIN" THEN decision
    ELSE IF result = "APPROVED" THEN decision
    ELSE blocked_by_council(decision, "validation_error")

NoDecisionMade ==
    [decision_id |-> 0, decision_type |-> None, safety_classification |-> None,
     requires_approval |-> FALSE, reasoning |-> <<>>, autonomy_level |-> None,
     proposed_action |-> NoProposedAction]

\* Brain.__init__; level N0 builds no policy loader, tracker or breaker
BrainConstructed(level, policy, cooldown, council) ==
    /\ br_autonomy_level = level
    /\ br_safe_actions = policy.safe_actions
    /\ br_risky_actions = policy.risky_actions
    /\ br_cooldown = cooldown
    /\ br_council = council
    /\ br_last_execution = NoTime
    /\ br_cb_failures = <<>>
    /\ br_cb_opened = NoTime
    /\ br_handled = 0
    /\ br_last = [severity |-> None, decided |-> NoDecisionMade, council |-> None,
                  decision |-> NoDecisionMade, published |-> FALSE,
                  request |-> NoApprovalRequest, request_published |-> FALSE]

\* the bus delivers an incident to handle_incident: decide (which emits the
\* approval_request), validate with the Council, publish; either publish may
\* raise, which the Brain logs and swallows
Brain_handle_incident ==
    /\ br_handled < MaxIncidents
    /\ \E severity \in Severities :
          \E d \in {decide([incident_id |-> br_handled + 1, severity |-> severity], now)} :
          \E result \in IF br_council = "configured" THEN CouncilResults ELSE {None},
             publish_ok \in BOOLEAN,
             request_ok \in IF d.request = NoApprovalRequest THEN {FALSE} ELSE BOOLEAN :
              /\ br_last' = [severity |-> severity,
                             decided |-> d.decision,
                             council |-> result,
                             decision |-> validate_with_council(d.decision, result),
                             published |-> publish_ok,
                             request |-> d.request,
                             request_published |-> request_ok]
              /\ br_last_execution' = d.last_execution
              /\ br_cb_failures' = d.failures
              /\ br_cb_opened' = d.opened
    /\ br_handled' = br_handled + 1
    /\ UNCHANGED <<br_autonomy_level, br_safe_actions, br_risky_actions,
                   br_cooldown, br_council>>
    /\ UNCHANGED <<now, cmd_vars, co_vars, ext_vars>>

\* an execution of acknowledge_incident is reported as failed to the Brain's
\* circuit breaker (CircuitBreaker.record_failure)
Brain_record_failure ==
    /\ br_autonomy_level # "N0"
    /\ Len(br_cb_failures) < MaxFailures
    /\ LET after == record_failure(br_cb_failures, br_cb_opened, now) IN
          /\ br_cb_failures' = after.failures
          /\ br_cb_opened' = after.opened
    /\ UNCHANGED <<br_autonomy_level, br_safe_actions, br_risky_actions, br_cooldown,
                   br_council, br_last_execution, br_handled, br_last>>
    /\ UNCHANGED <<now, cmd_vars, co_vars, ext_vars>>

\* the clock advances by a second, or by the open duration of the breaker,
\* between two handler runs
Wait ==
    /\ \E d \in {1, circuit_open_duration} :
          /\ d = 1 => now % circuit_open_duration < MaxTime
          /\ now + d <= MaxTime + MaxWaits * circuit_open_duration
          /\ now' = now + d
    /\ UNCHANGED <<cmd_vars, co_vars, br_vars, ext_vars>>

\* ======================================================================
\* Circuit Breaker and Cooldown Tracker on their own
\* (src/core/brain/circuit_breaker.py, src/core/brain/cooldown_tracker.py)
\* ======================================================================

\* action types the breaker and the tracker are asked about
TrackedActionTypes == {"acknowledge_incident", "restart_service"}

\* CircuitBreaker(failure_threshold, failure_window, circuit_open_duration):
\* the defaults, and small values of each that the clock can reach
DefaultBreaker ==
    [failure_threshold |-> failure_threshold, failure_window |-> failure_window,
     circuit_open_duration |-> circuit_open_duration]
BreakerSetups ==
    [failure_threshold : {1, 2}, failure_window : {1, 2}, circuit_open_duration : {1, 2}]

\* CircuitBreaker.__init__
NoBreakerCall ==
    [op |-> None, action_type |-> None, at |-> NoTime, ret |-> FALSE,
     opened_before |-> NoTime, recorded |-> 0, after_threshold |-> FALSE]
BreakerConstructed(setup) ==
    /\ cb_failure_threshold = setup.failure_threshold
    /\ cb_failure_window = setup.failure_window
    /\ cb_circuit_open_duration = setup.circuit_open_duration
    /\ cb_failures = [a \in TrackedActionTypes |-> <<>>]
    /\ cb_circuit_opened = [a \in TrackedActionTypes |-> NoTime]
    /\ cb_last = NoBreakerCall

\* what a CircuitBreaker call on action_type leaves in _failures and
\* _circuit_opened, and the record of the call: its return value (ret), the
\* opening time it found, the failures it left recorded, and whether it came
\* straight after a record_failure that left the threshold reached
BreakerCall(op, action_type, after, ret) ==
    /\ cb_failures' = [cb_failures EXCEPT ![action_type] = after.failures]
    /\ cb_circuit_opened' = [cb_circuit_opened EXCEPT ![action_type] = after.opened]
    /\ cb_last' = [op |-> op, action_type |-> action_type, at |-> now, ret |-> ret,
                   opened_before |-> cb_circuit_opened[action_type],
                   recorded |-> Len(after.failures),
                   after_threshold |->
                       /\ cb_last.op = "record_failure"
                       /\ cb_last.action_type = action_type
                       /\ cb_last.at = now
                       /\ cb_last.recorded >= cb_failure_threshold]
    /\ UNCHANGED <<cb_failure_threshold, cb_failure_window, cb_circuit_open_duration>>
    /\ UNCHANGED <<now, pipeline_vars, ct_vars, bus_vars, sub_vars, cn_vars, gd_vars, hd_vars, ex_vars, run_vars, lp_vars, more_vars>>

\* CircuitBreaker.record_failure(action_type)
CircuitBreaker_record_failure ==
    \E action_type \in TrackedActionTypes :
        /\ Len(cb_failures[action_type]) < MaxFailures
        /\ BreakerCall("record_failure", action_type,
                       record_failure(cb_failures[action_type],
                                      cb_circuit_opened[action_type], now),
                       FALSE)

\* CircuitBreaker.record_success(action_type)
CircuitBreaker_record_success ==
    \E action_type \in TrackedActionTypes :
        BreakerCall("record_success", action_type,
                    record_success(cb_failures[action_type],
                                   cb_circuit_opened[action_type]),
                    FALSE)

\* CircuitBreaker.is_open(action_type)
CircuitBreaker_is_open ==
    \E action_type \in TrackedActionTypes :
        \E answer \in {is_open(cb_failures[action_type],
                               cb_circuit_opened[action_type], now)} :
            BreakerCall("is_open", action_type, answer, answer.open)

\* ---------------------------------------------------------------- tracker
\* applies_per_key arguments: None (also the default), "" and a service name
PerKeys == {None, "", "web"}

\* cooldown_seconds arguments
CooldownSeconds == {-1, 0, 1, 2}

\* "applies_per_key or ''"
key_or_empty(applies_per_key) ==
    IF applies_per_key = None \/ applies_per_key = "" THEN "" ELSE applies_per_key

\* keys of _last_execution
TrackerKeys == TrackedActionTypes \X {key_or_empty(k) : k \in PerKeys}

\* CooldownTracker.__init__; NoTime = key absent
NoTrackerCall ==
    [op |-> None, action_type |-> None, applies_per_key |-> None,
     cooldown_seconds |-> 0, at |-> NoTime, ret |-> FALSE]
TrackerConstructed ==
    /\ ct_last_execution = [key \in TrackerKeys |-> NoTime]
    /\ ct_last = NoTrackerCall

\* CooldownTracker.record_execution(action_type, applies_per_key)
CooldownTracker_record_execution ==
    \E action_type \in TrackedActionTypes, applies_per_key \in PerKeys :
        /\ ct_last_execution' =
              [ct_last_execution EXCEPT
                  ![<<action_type, key_or_empty(applies_per_key)>>] = now]
        /\ ct_last' = [op |-> "record_execution", action_type |-> action_type,
                       applies_per_key |-> applies_per_key, cooldown_seconds |-> 0,
                       at |-> now, ret |-> FALSE]
        /\ UNCHANGED <<now, pipeline_vars, cb_vars, bus_vars, sub_vars, cn_vars, gd_vars, hd_vars, ex_vars, run_vars, lp_vars, more_vars>>

\* CooldownTracker.check_cooldown(action_type, cooldown_seconds, applies_per_key)
CooldownTracker_check_cooldown ==
    \E action_type \in TrackedActionTypes, applies_per_key \in PerKeys,
       cooldown_seconds \in CooldownSeconds :
        /\ ct_last' = [op |-> "check_cooldown", action_type |-> action_type,
                       applies_per_key |-> applies_per_key,
                       cooldown_seconds |-> cooldown_seconds, at |-> now,
                       ret |-> check_cooldown(
                                   ct_last_execution[<<action_type,
                                                       key_or_empty(applies_per_key)>>],
                                   cooldown_seconds, now)]
        /\ UNCHANGED ct_last_execution
        /\ UNCHANGED <<now, pipeline_vars, cb_vars, bus_vars, sub_vars, cn_vars, gd_vars, hd_vars, ex_vars, run_vars, lp_vars, more_vars>>

\* ======================================================================
\* Event Bus  (src/bus/python/orion_bus/bus.py, validator.py)
\* ======================================================================

\* Python values a message is made of, beside None / int / str: a list, a
\* tuple, a dict (its items in insertion order) and an object json cannot
\* serialise (a datetime, a set)
PyList(elems) == <<"list", elems>>
PyTuple(elems) == <<"tuple", elems>>
PyDict(items) == <<"dict", items>>
PyObject(class) == <<"object", class>>
Item(key, value) == <<PyText(key), value>>

\* keys of a dict
Keys(d) == {d[2][i][1] : i \in 1..Len(d[2])}
\* d[key], for a key the dict holds
Get(d, key) == d[2][CHOOSE i \in 1..Len(d[2]) : d[2][i][1] = key][2]

\* json.dumps can serialise value
RECURSIVE serialisable(_)
serialisable(value) ==
    IF value[1] \in {"none", "int", "str"} THEN TRUE
    ELSE IF value[1] \in {"list", "tuple"}
    THEN \A i \in 1..Len(value[2]) : serialisable(value[2][i])
    ELSE IF value[1] = "dict"
    THEN \A i \in 1..Len(value[2]) :
            /\ value[2][i][1][1] \in {"none", "int", "str"}
            /\ serialisable(value[2][i][2])
    ELSE FALSE

\* json.dumps(value): the JSON text, as the JSON value it spells; lists and
\* tuples both become arrays, dict keys become the strings str(key)
RECURSIVE json_dumps(_)
json_dumps(value) ==
    IF value[1] = "none" THEN <<"null">>
    ELSE IF value[1] = "int" THEN <<"number", value[2]>>
    ELSE IF value[1] = "str" THEN <<"string", value[2]>>
    ELSE IF value[1] \in {"list", "tuple"}
    THEN <<"array", [i \in 1..Len(value[2]) |-> json_dumps(value[2][i])]>>
    ELSE <<"object", [i \in 1..Len(value[2]) |->
                         <<IF value[2][i][1][1] = "none" THEN "null"
                           ELSE str(value[2][i][1]),
                           json_dumps(value[2][i][2])>>]>>

\* json.loads(text): arrays become lists, objects become dicts with str keys
RECURSIVE json_loads(_)
json_loads(text) ==
    IF text[1] = "null" THEN PyNone
    ELSE IF text[1] = "number" THEN PyInt(text[2])
    ELSE IF text[1] = "string" THEN PyText(text[2])
    ELSE IF text[1] = "array"
    THEN PyList([i \in 1..Len(text[2]) |-> json_loads(text[2][i])])
    ELSE PyDict([i \in 1..Len(text[2]) |->
                    <<PyText(text[2][i][1]), json_loads(text[2][i][2])>>])

\* contract kinds with a *.schema.json file, and the kinds publish is called with
ContractKinds == {"event", "decision"}
PublishKinds == ContractKinds \cup {"metric"}

\* the schema of a kind, as far as it matters here: its required properties,
\* its properties with their JSON types, additionalProperties: false
Schema(kind) ==
    IF kind = "event"
    THEN [required |-> {"event_id", "severity", "data"},
          properties |-> [event_id |-> "string", severity |-> "string",
                          data |-> "object"]]
    ELSE [required |-> {"decision_id", "decision_type"},
          properties |-> [decision_id |-> "string", decision_type |-> "string",
                          proposed_action |-> "object"]]

\* jsonschema type check of a Python value: "string" is str, "object" is dict
has_type(value, type) ==
    IF type = "string" THEN value[1] = "str" ELSE value[1] = "dict"

\* ContractValidator.validate: "ValueError" for an unknown schema,
\* "ValidationError" for a message the schema rejects, "ok" otherwise
validate(message, kind) ==
    IF kind \notin ContractKinds THEN "ValueError"
    ELSE LET schema == Schema(kind) IN
         IF /\ message[1] = "dict"
            /\ \A key \in Keys(message) :
                  /\ key[1] = "str"
                  /\ key[2] \in DOMAIN schema.properties
                  /\ has_type(Get(message, key), schema.properties[key[2]])
            /\ \A name \in schema.required : PyText(name) \in Keys(message)
         THEN "ok"
         ELSE "ValidationError"

\* contents of an event's data map: JSON values only, a tuple, an int key,
\* and a value json cannot serialise
DataMaps ==
    {PyDict(<<Item("cpu", PyInt(1)), Item("load", PyList(<<PyInt(1), PyInt(2)>>))>>),
     PyDict(<<Item("load", PyTuple(<<PyInt(1), PyInt(2)>>))>>),
     PyDict(<< <<PyInt(1), PyText("cpu")>> >>),
     PyDict(<<Item("at", PyObject("datetime"))>>)}

Event(data) ==
    PyDict(<<Item("event_id", PyText("e1")), Item("severity", PyText("info")),
             Item("data", data)>>)

\* messages publish is called with: events with each data map, an event
\* without event_id, an event with an unknown field, an event whose data is
\* not a map, and a decision
Messages ==
    {Event(data) : data \in DataMaps} \cup
    {PyDict(<<Item("severity", PyText("info")),
              Item("data", PyDict(<<Item("cpu", PyInt(1))>>))>>),
     PyDict(<<Item("event_id", PyText("e1")), Item("severity", PyText("info")),
              Item("data", PyDict(<<Item("cpu", PyInt(1))>>)),
              Item("note", PyText("x"))>>),
     Event(PyText("cpu")),
     PyDict(<<Item("decision_id", PyText("d1")),
              Item("decision_type", PyText("NO_ACTION"))>>)}

\* redis xadd: the entry goes to the end of the stream
xadd_Front(stream, entry) == <<entry>> \o stream
xadd(stream, entry) == Append(stream, entry)

\* EventBus.read_stream(kind)
read_stream(kind) ==
    [i \in 1..Len(bus_streams[kind]) |-> json_loads(bus_streams[kind][i])]

\* EventBus.__init__ on empty streams
NoPublish == [message |-> PyNone, kind |-> None, outcome |-> None,
              streams_before |-> [kind \in ContractKinds |-> <<>>]]
BusConstructed ==
    /\ bus_streams = [kind \in ContractKinds |-> <<>>]
    /\ bus_passed = [kind \in ContractKinds |-> <<>>]
    /\ bus_returned = [kind \in ContractKinds |-> <<>>]
    /\ bus_last = NoPublish

\* EventBus.publish(message, kind) for a message and kind of the given sets:
\* validate (raises ValueError or ValidationError), json.dumps (raises
\* TypeError), xadd to the stream of the kind; MaxPublishes caps the calls
\* that pass validation
Publish(messages, kinds) ==
    \E message \in messages, kind \in kinds :
          \E verdict \in {validate(message, kind)} :
          /\ verdict = "ok" =>
                Len(bus_passed["event"]) + Len(bus_passed["decision"]) < MaxPublishes
          /\ \E outcome \in {IF verdict # "ok" THEN verdict
                          ELSE IF ~serialisable(message) THEN "TypeError"
                          ELSE "returned"} :
              /\ bus_last' = [message |-> message, kind |-> kind,
                              outcome |-> outcome, streams_before |-> bus_streams]
              /\ bus_passed' = IF verdict = "ok"
                               THEN [bus_passed EXCEPT ![kind] = Append(@, message)]
                               ELSE bus_passed
              /\ bus_returned' = IF outcome = "returned"
                                 THEN [bus_returned EXCEPT ![kind] = Append(@, message)]
                                 ELSE bus_returned
              /\ bus_streams' = IF outcome = "returned"
                                THEN [bus_streams EXCEPT
                                         ![kind] = xadd(@, json_dumps(message))]
                                ELSE bus_streams

\* any caller publishes any message under any kind
EventBus_publish ==
    /\ Publish(Messages, PublishKinds)
    /\ UNCHANGED <<now, pipeline_vars, cb_vars, ct_vars, sub_vars, cn_vars, gd_vars, hd_vars, ex_vars, run_vars, lp_vars, more_vars>>

\* ---------------------------------------------------------- subscription
\* consumers of one consumer group on the event stream, each running
\* EventBus.subscribe("event", handler, group, consumer)
Consumers == {"c1", "c2"}

\* the count argument of subscribe: entries read per xreadgroup call
ReadCount == 2

\* entries of the event stream, by position
Entries == 1..MaxPublishes

\* what handler(data) does: returns, or raises an Exception
HandlerOutcomes == {"returns", "raises"}

\* before any subscribe call: no group; each consumer is about to call subscribe
SubscriptionConstructed ==
    /\ sub_group_created = FALSE
    /\ sub_last_delivered = 0
    /\ sub_pending = {}
    /\ sub_pc = [c \in Consumers |-> "start"]
    /\ sub_batch = [c \in Consumers |-> <<>>]
    /\ sub_dispatched = [e \in Entries |-> 0]
    /\ sub_raised = {}
    /\ sub_acked = [e \in Entries |-> 0]
    /\ sub_read = [e \in Entries |-> 0]

\* a producer publishes an event of JSON values
EventBus_publish_event ==
    /\ Publish({Event(data) : data \in {PyDict(<<Item("cpu", PyInt(1))>>)}}, {"event"})
    /\ UNCHANGED <<now, pipeline_vars, cb_vars, ct_vars, sub_vars, cn_vars, gd_vars, hd_vars, ex_vars, run_vars, lp_vars, more_vars>>

\* subscribe up to the loop: xgroup_create(id="0", mkstream=True); BUSYGROUP
\* from an existing group is swallowed
Subscribe_start ==
    \E c \in Consumers :
        /\ sub_pc[c] = "start"
        /\ sub_group_created' = TRUE
        /\ sub_pc' = [sub_pc EXCEPT ![c] = "loop"]
        /\ UNCHANGED <<sub_last_delivered, sub_pending, sub_batch, sub_dispatched,
                       sub_raised, sub_acked, sub_read>>
        /\ UNCHANGED <<now, pipeline_vars, cb_vars, ct_vars, bus_vars, cn_vars, gd_vars, hd_vars, ex_vars, run_vars, lp_vars, more_vars>>

\* xreadgroup(group, consumer, {stream: ">"}, count): the entries never yet
\* delivered to the group, at most count of them, which become pending
xreadgroup(stream_length, last_delivered, count) ==
    [i \in 1..(IF stream_length - last_delivered < count
               THEN stream_length - last_delivered ELSE count) |-> last_delivered + i]

\* one xreadgroup call of the loop that returns entries
Subscribe_read ==
    \E c \in Consumers :
        /\ sub_pc[c] = "loop"
        /\ sub_batch[c] = <<>>
        /\ \E entries \in {xreadgroup(Len(bus_streams["event"]), sub_last_delivered,
                                      ReadCount)} :
              /\ entries # <<>>
              /\ sub_batch' = [sub_batch EXCEPT ![c] = entries]
              /\ sub_last_delivered' = entries[Len(entries)]
              /\ sub_pending' = sub_pending \cup {entries[i] : i \in 1..Len(entries)}
              /\ sub_read' = [e \in Entries |->
                                 IF \E i \in 1..Len(entries) : entries[i] = e
                                 THEN sub_read[e] + 1 ELSE sub_read[e]]
        /\ UNCHANGED <<sub_group_created, sub_pc, sub_dispatched, sub_raised, sub_acked>>
        /\ UNCHANGED <<now, pipeline_vars, cb_vars, ct_vars, bus_vars, cn_vars, gd_vars, hd_vars, ex_vars, run_vars, lp_vars, more_vars>>

\* xack in the try block and in the except block: the entry leaves the
\* pending list whatever the handler did
xack_OnlyOnReturn(pending, entry, outcome) ==
    IF outcome = "returns" THEN pending \ {entry} ELSE pending
xack(pending, entry, outcome) == pending \ {entry}

\* the body of the inner for loop on the next entry of the batch:
\* json.loads, handler(data), xack; an Exception is logged and followed by xack
Subscribe_process ==
    \E c \in Consumers, outcome \in HandlerOutcomes :
        /\ sub_pc[c] = "loop"
        /\ sub_batch[c] # <<>>
        /\ LET entry == Head(sub_batch[c]) IN
              /\ sub_dispatched' = [sub_dispatched EXCEPT ![entry] = @ + 1]
              /\ sub_raised' = IF outcome = "raises" THEN sub_raised \cup {entry}
                               ELSE sub_raised
              /\ sub_pending' = xack(sub_pending, entry, outcome)
              /\ sub_acked' = [sub_acked EXCEPT
                                  ![entry] = IF entry \in sub_pending'
                                             THEN @ ELSE @ + 1]
              /\ sub_batch' = [sub_batch EXCEPT ![c] = Tail(@)]
        /\ UNCHANGED <<sub_group_created, sub_pc, sub_last_delivered, sub_read>>
        /\ UNCHANGED <<now, pipeline_vars, cb_vars, ct_vars, bus_vars, cn_vars, gd_vars, hd_vars, ex_vars, run_vars, lp_vars, more_vars>>

\* KeyboardInterrupt between two entries: the loop breaks, the entries of the
\* batch not yet handled stay pending
Subscribe_interrupt ==
    \E c \in Consumers :
        /\ sub_pc[c] = "loop"
        /\ sub_pc' = [sub_pc EXCEPT ![c] = "stopped"]
        /\ sub_batch' = [sub_batch EXCEPT ![c] = <<>>]
        /\ UNCHANGED <<sub_group_created, sub_last_delivered, sub_pending,
                       sub_dispatched, sub_raised, sub_acked, sub_read>>
        /\ UNCHANGED <<now, pipeline_vars, cb_vars, ct_vars, bus_vars, cn_vars, gd_vars, hd_vars, ex_vars, run_vars, lp_vars, more_vars>>

\* ======================================================================
\* Commander.run  (src/core/commander/commander.py, bus.subscribe)
\* ======================================================================

RunConstructed ==
    /\ run_pc = "start"
    /\ run_published = [k \in {"decision", "approval_decision"} |-> 0]
    /\ run_delivered = [k \in {"decision", "approval_decision"} |-> <<>>]

\* the Brain publishes a decision, or the Approval Coordinator an
\* approval_decision
Publish_to_commander ==
    /\ \E k \in {"decision", "approval_decision"} :
          /\ run_published[k] < MaxPublishes
          /\ run_published' = [run_published EXCEPT ![k] = @ + 1]
    /\ UNCHANGED <<run_pc, run_delivered>>
    /\ UNCHANGED <<now, pipeline_vars, cb_vars, ct_vars, bus_vars, sub_vars, cn_vars,
                   gd_vars, hd_vars, ex_vars, lp_vars, more_vars>>

\* where run() is once a subscribe call has returned: the first call is
\* followed by the second, the second by the end of run()
after_subscribe(pc) ==
    IF pc = "decision" THEN "subscribe approval_decision" ELSE "returned"

\* run() calls bus.subscribe, which creates the consumer group and enters its
\* while True loop; an error of xgroup_create other than BUSYGROUP is raised
\* out of subscribe and out of run()
Commander_run_subscribe ==
    /\ run_pc \in {"start", "subscribe approval_decision"}
    /\ \E created \in BOOLEAN :
          run_pc' = IF ~created THEN "raised"
                    ELSE IF run_pc = "start" THEN "decision" ELSE "approval_decision"
    /\ UNCHANGED <<run_published, run_delivered>>
    /\ UNCHANGED <<now, pipeline_vars, cb_vars, ct_vars, bus_vars, sub_vars, cn_vars,
                   gd_vars, hd_vars, ex_vars, lp_vars, more_vars>>

\* the stream the subscribe loop now running reads from
streams_read(pc) == {pc} \cap {"decision", "approval_decision"}

\* the loop of the subscribe call that is running reads the next message of
\* its stream and hands it to the handler, which returns or raises
Commander_run_loop ==
    /\ \E k \in streams_read(run_pc), outcome \in HandlerOutcomes :
          /\ Len(run_delivered[k]) < run_published[k]
          /\ run_delivered' = [run_delivered EXCEPT ![k] = Append(@, outcome)]
    /\ UNCHANGED <<run_pc, run_published>>
    /\ UNCHANGED <<now, pipeline_vars, cb_vars, ct_vars, bus_vars, sub_vars, cn_vars,
                   gd_vars, hd_vars, ex_vars, lp_vars, more_vars>>

\* KeyboardInterrupt in the loop: the loop breaks and subscribe returns
Commander_run_interrupt ==
    /\ run_pc \in {"decision", "approval_decision"}
    /\ run_pc' = after_subscribe(run_pc)
    /\ UNCHANGED <<run_published, run_delivered>>
    /\ UNCHANGED <<now, pipeline_vars, cb_vars, ct_vars, bus_vars, sub_vars, cn_vars,
                   gd_vars, hd_vars, ex_vars, lp_vars, more_vars>>

\* ======================================================================
\* Council  (src/core/council/consensus_aggregator.py)
\* ======================================================================

\* DEFAULT_CONFIDENCE_THRESHOLD (0.7), DEFAULT_SAFETY_VETO_THRESHOLD (0.8) and
\* the bar for auto-approving a RISKY decision (0.9); confidences are counted
\* in hundredths
confidence_threshold == 70
safety_veto_threshold == 80
risky_approval_bar == 90

\* critique texts, as sequences of characters: "Safe", "UNSAFE" and
\* "valid hazard"
Critiques ==
    {<<"S", "a", "f", "e">>,
     <<"U", "N", "S", "A", "F", "E">>,
     <<"v", "a", "l", "i", "d", " ", "h", "a", "z", "a", "r", "d">>}

\* confidence scores a validator returns, in hundredths
Confidences == {60, 80, 95}

\* APPROVE_KEYWORDS, BLOCK_KEYWORDS and the safety_keywords of _has_safety_concern
APPROVE_KEYWORDS ==
    <<<<"a", "p", "p", "r", "o", "v", "e">>,
      <<"a", "p", "p", "r", "o", "v", "e", "d">>,
      <<"s", "a", "f", "e">>,
      <<"c", "o", "r", "r", "e", "c", "t">>,
      <<"v", "a", "l", "i", "d">>,
      <<"a", "g", "r", "e", "e">>,
      <<"c", "o", "n", "f", "i", "d", "e", "n", "t">>>>
BLOCK_KEYWORDS ==
    <<<<"b", "l", "o", "c", "k">>,
      <<"b", "l", "o", "c", "k", "e", "d">>,
      <<"u", "n", "s", "a", "f", "e">>,
      <<"r", "i", "s", "k", "y">>,
      <<"c", "o", "n", "c", "e", "r", "n">>,
      <<"r", "e", "j", "e", "c", "t">>,
      <<"i", "n", "v", "a", "l", "i", "d">>,
      <<"d", "a", "n", "g", "e", "r", "o", "u", "s">>,
      <<"e", "r", "r", "o", "r">>>>
safety_keywords ==
    <<<<"u", "n", "s", "a", "f", "e">>,
      <<"r", "i", "s", "k", "y">>,
      <<"c", "o", "n", "c", "e", "r", "n">>,
      <<"d", "a", "n", "g", "e", "r", "o", "u", "s">>,
      <<"v", "i", "o", "l", "a", "t", "i", "o", "n">>,
      <<"h", "a", "z", "a", "r", "d">>>>

\* str.lower() on the letters the critiques use
lower(text) ==
    LET small == [A |-> "a", E |-> "e", F |-> "f", N |-> "n", O |-> "o", R |-> "r",
                  S |-> "s", U |-> "u"]
    IN [i \in 1..Len(text) |-> IF text[i] \in DOMAIN small THEN small[text[i]]
                               ELSE text[i]]

\* "keyword in text"
contains(text, keyword) ==
    \E start \in 1..(Len(text) - Len(keyword) + 1) :
        \A i \in 1..Len(keyword) : text[start + i - 1] = keyword[i]

\* ConsensusAggregator._parse_critique_vote: 1 approves, 0 blocks
parse_critique_vote(critique) ==
    LET critique_lower == lower(critique) IN
    IF \E k \in 1..Len(BLOCK_KEYWORDS) : contains(critique_lower, BLOCK_KEYWORDS[k])
    THEN 0
    ELSE IF \E k \in 1..Len(APPROVE_KEYWORDS) :
               contains(critique_lower, APPROVE_KEYWORDS[k])
    THEN 1
    ELSE 0

\* ConsensusAggregator._has_safety_concern
has_safety_concern(critique) ==
    LET critique_lower == lower(critique) IN
    \E k \in 1..Len(safety_keywords) : contains(critique_lower, safety_keywords[k])

\* sum(...) of a list of numbers
RECURSIVE sum(_)
sum(numbers) ==
    IF numbers = <<>> THEN 0 ELSE Head(numbers) + sum(Tail(numbers))

\* whether the floating-point average of the votes can come out just below
\* its exact value in a way the comparisons see: the exact value is a whole
\* number of hundredths strictly between 0 and 1
Roundings(validations) ==
    LET valid_validations == SelectSeq(validations, LAMBDA v : v.confidence > 0)
        total_weight == sum([i \in 1..Len(valid_validations) |->
                                valid_validations[i].confidence])
        weighted_sum == sum([i \in 1..Len(valid_validations) |->
                                valid_validations[i].confidence
                                * parse_critique_vote(valid_validations[i].critique)])
    IN IF /\ 0 < weighted_sum /\ weighted_sum < total_weight
          /\ (weighted_sum * 100) % total_weight = 0
       THEN BOOLEAN ELSE {FALSE}

\* ConsensusAggregator.aggregate_votes: the result and the weighted average,
\* in hundredths rounded down. The sums and the quotient are Python floats:
\* a quotient that is exactly a whole number of hundredths may be computed
\* just below it (0.35 * 1 + 0.45 * 0 + 0.7 * 1 over 1.5 gives
\* 0.6999999999999998), which rounds_down says; x / x is computed as 1.0
aggregate_votes(validations, rounds_down) ==
    LET valid_validations == SelectSeq(validations, LAMBDA v : v.confidence > 0)
        total_weight == sum([i \in 1..Len(valid_validations) |->
                                valid_validations[i].confidence])
        weighted_sum == sum([i \in 1..Len(valid_validations) |->
                                valid_validations[i].confidence
                                * parse_critique_vote(valid_validations[i].critique)])
        weighted_avg == IF rounds_down
                        THEN (weighted_sum * 100) \div total_weight - 1
                        ELSE (weighted_sum * 100) \div total_weight
    IN
    IF validations = <<>> THEN [result |-> "BLOCKED", confidence |-> 0]
    ELSE IF valid_validations = <<>> THEN [result |-> "BLOCKED", confidence |-> 0]
    ELSE [result |-> IF weighted_avg >= confidence_threshold
                     THEN "APPROVED" ELSE "BLOCKED",
          confidence |-> weighted_avg]

\* ConsensusAggregator.safety_veto: TRUE when it returns a veto reason
safety_veto_Never(validations) == FALSE
safety_veto(validations) ==
    \E i \in 1..Len(validations) :
        /\ validations[i].confidence >= safety_veto_threshold
        /\ has_safety_concern(validations[i].critique)

\* ConsensusAggregator.should_escalate
should_escalate_RiskyOnly(local_confidence, decision_classification) ==
    decision_classification = "RISKY"
should_escalate(local_confidence, decision_classification) ==
    \/ local_confidence < confidence_threshold
    \/ decision_classification = "RISKY"

\* what local_validator.validate and external_validator.validate_parallel do:
\* return a (confidence, critique) pair, a list of up to two pairs, or raise
Validations == [confidence : Confidences, critique : Critiques]
Raised == [raised |-> TRUE, validations |-> <<>>]
Returned(validations) == [raised |-> FALSE, validations |-> validations]
LocalAnswers ==
    {Returned(<<v>>) : v \in Validations}
        \cup {Returned(<<[confidence |-> confidence_threshold, critique |-> c]>>) :
                 c \in Critiques}
        \cup {Raised}
ExternalAnswers ==
    {Returned(<<>>)} \cup {Returned(<<v>>) : v \in Validations}
        \cup {Returned(<<v, w>>) : v \in Validations, w \in Validations}
        \cup {Raised}

\* the (confidence, critique) a validator that raised is recorded with:
\* confidence 0.0 and a text starting "ERROR"
ErrorValidation == [confidence |-> 0, critique |-> <<"E", "R", "R", "O", "R">>]

\* validate_decision, stages 1 and 2: the validations it collects (the
\* "[Local] ", "[Claude] " and "[OpenAI] " put before each critique hold no keyword)
collect_validations(classification, local, external) ==
    LET local_validation == IF local.raised THEN ErrorValidation
                            ELSE local.validations[1]
    IN <<local_validation>> \o
       (IF ~should_escalate(local_validation.confidence, classification) THEN <<>>
        ELSE IF external.raised THEN <<ErrorValidation>>
        ELSE external.validations)

\* validate_decision, stages 1 and 2: the validators it calls, in order
validators_called(classification, local) ==
    LET local_confidence == IF local.raised THEN 0
                            ELSE local.validations[1].confidence
    IN <<"local">> \o (IF should_escalate(local_confidence, classification)
                       THEN <<"external">> ELSE <<>>)

\* validate_decision, stages 3 and 4, on the validations collected
conclude_NoBar(classification, all_validations, rounds_down) ==
    IF safety_veto(all_validations) THEN [result |-> "BLOCKED", confidence |-> 0]
    ELSE aggregate_votes(all_validations, rounds_down)
conclude(classification, all_validations, rounds_down) ==
    IF safety_veto(all_validations) THEN [result |-> "BLOCKED", confidence |-> 0]
    ELSE LET vote == aggregate_votes(all_validations, rounds_down) IN
         IF /\ vote.result = "APPROVED"
            /\ classification = "RISKY"
            /\ vote.confidence < risky_approval_bar
         THEN [result |-> "ESCALATE_TO_ADMIN", confidence |-> vote.confidence]
         ELSE vote

\* before any validate_decision call
NoValidation == [classification |-> None, called |-> <<>>, all_validations |-> <<>>,
                 rounds_down |-> FALSE, result |-> None, confidence |-> 0]
CouncilConstructed ==
    cn_last = NoValidation

\* ConsensusAggregator.validate_decision(decision, local_validator, external_validator)
Council_validate_decision ==
    \E classification \in {"SAFE", "RISKY", "UNKNOWN"}, local \in LocalAnswers :
       \E external \in IF ~local.raised
                          /\ ~should_escalate(local.validations[1].confidence,
                                              classification)
                       THEN {Returned(<<>>)} ELSE ExternalAnswers :
       \E all_validations \in {collect_validations(classification, local, external)} :
       \E rounds_down \in Roundings(all_validations) :
       \E verdict \in {conclude(classification, all_validations, rounds_down)} :
           /\ cn_last' = [classification |-> classification,
                          called |-> validators_called(classification, local),
                          all_validations |-> all_validations,
                          rounds_down |-> rounds_down,
                          result |-> verdict.result,
                          confidence |-> verdict.confidence]
           /\ UNCHANGED <<now, pipeline_vars, cb_vars, ct_vars, bus_vars, sub_vars, gd_vars, hd_vars, ex_vars, run_vars, lp_vars, more_vars>>

\* the lists of (confidence, critique) pairs aggregate_votes is called with:
\* confidences 0.0, 0.35, 0.45 and 0.7, up to MaxValidations pairs
VotedValidations == [confidence : {0, 35, 45, 70}, critique : Critiques]
RECURSIVE ValidationLists(_)
ValidationLists(n) ==
    IF n = 0 THEN {<<>>}
    ELSE LET shorter == ValidationLists(n - 1) IN
         shorter \cup {Append(l, v) : l \in {s \in shorter : Len(s) = n - 1},
                                      v \in VotedValidations}

\* ConsensusAggregator.aggregate_votes(validations)
Council_aggregate_votes ==
    \E validations \in ValidationLists(MaxValidations) :
       \E rounds_down \in Roundings(validations) :
       \E vote \in {aggregate_votes(validations, rounds_down)} :
           /\ cn_last' = [classification |-> None,
                          called |-> <<>>,
                          all_validations |-> validations,
                          rounds_down |-> rounds_down,
                          result |-> vote.result,
                          confidence |-> vote.confidence]
           /\ UNCHANGED <<now, pipeline_vars, cb_vars, ct_vars, bus_vars, sub_vars, gd_vars, hd_vars, ex_vars, run_vars, lp_vars, more_vars>>

\* ======================================================================
\* ExternalValidator._retry_with_backoff  (src/core/council/external_validator.py)
\* ======================================================================

\* MAX_RETRIES and INITIAL_RETRY_DELAY (seconds)
MAX_RETRIES == 2
INITIAL_RETRY_DELAY == 1

\* the two callers' api_name
ApiNames == {"Claude", "OpenAI"}

\* what one `await async_func()` does: return a (confidence, critique) pair
\* or raise; the exception classes of the anthropic and the openai library
\* are handled alike, clause by clause
AttemptErrors == {"AuthenticationError", "RateLimitError", "APIConnectionError",
                  "TimeoutError", "Exception"}
AttemptResults == {[confidence |-> 90, critique |-> "Safe"],
                   [confidence |-> 0, critique |-> "ERROR: Empty response"]}

\* the pair an `except` clause returns, by the text after "ERROR: {api_name} "
ErrorResult(text) == [confidence |-> 0, critique |-> text]

NoRetryCall == [pc |-> "idle", api_name |-> None, attempt |-> 0, delay |-> 0,
                last_error |-> None, attempts |-> <<>>, slept |-> <<>>,
                result |-> [confidence |-> -1, critique |-> None]]
RetryConstructed ==
    rt_call = NoRetryCall

\* `await self._retry_with_backoff(_call, api_name)`: the call starts
Retry_call ==
    /\ rt_call.pc \in {"idle", "returned"}
    /\ \E api_name \in ApiNames :
          rt_call' = [NoRetryCall EXCEPT !.pc = "attempt", !.api_name = api_name,
                                         !.delay = INITIAL_RETRY_DELAY]
    /\ UNCHANGED <<now, pipeline_vars, cb_vars, ct_vars, bus_vars, sub_vars, cn_vars, gd_vars, hd_vars, ex_vars, run_vars, lp_vars, xp_vars, rc_vars>>

\* the pair returned once the loop has run out of attempts
exhausted(last_error) ==
    IF last_error = "timeout" THEN ErrorResult("timeout")
    ELSE ErrorResult("connection failed")

\* one pass of `for attempt in range(max_retries + 1)`, up to its return or
\* to the `await asyncio.sleep(delay)`
retry_attempt_Again(call, raised, returned) ==
    LET attempted == [call EXCEPT !.attempts = Append(call.attempts, raised)] IN
    IF raised = None THEN [attempted EXCEPT !.pc = "returned", !.result = returned]
    ELSE IF raised \in {"APIConnectionError", "TimeoutError"}
    THEN LET last_error == IF raised = "TimeoutError" THEN "timeout"
                           ELSE "connection"
         IN [attempted EXCEPT !.last_error = last_error, !.pc = "sleep"]
    ELSE [attempted EXCEPT !.pc = "returned", !.result = ErrorResult("failed")]
retry_attempt(call, raised, returned) ==
    LET attempted == [call EXCEPT !.attempts = Append(call.attempts, raised)] IN
    IF raised = None THEN [attempted EXCEPT !.pc = "returned", !.result = returned]
    ELSE IF raised = "AuthenticationError"
    THEN [attempted EXCEPT !.pc = "returned",
                           !.result = ErrorResult("authentication failed")]
    ELSE IF raised = "RateLimitError"
    THEN [attempted EXCEPT !.pc = "returned", !.result = ErrorResult("rate limited")]
    ELSE IF raised \in {"APIConnectionError", "TimeoutError"}
    THEN LET last_error == IF raised = "TimeoutError" THEN "timeout"
                           ELSE "connection"
         IN IF call.attempt < MAX_RETRIES
            THEN [attempted EXCEPT !.last_error = last_error, !.pc = "sleep"]
            ELSE [attempted EXCEPT !.last_error = last_error, !.pc = "returned",
                                   !.result = exhausted(last_error)]
    ELSE [attempted EXCEPT !.pc = "returned", !.result = ErrorResult("failed")]

Retry_attempt ==
    /\ rt_call.pc = "attempt"
    /\ \E raised \in AttemptErrors \cup {None}, returned \in AttemptResults :
          /\ raised # None => returned = CHOOSE r \in AttemptResults : TRUE
          /\ rt_call' = retry_attempt(rt_call, raised, returned)
    /\ UNCHANGED <<now, pipeline_vars, cb_vars, ct_vars, bus_vars, sub_vars, cn_vars, gd_vars, hd_vars, ex_vars, run_vars, lp_vars, xp_vars, rc_vars>>

\* `await asyncio.sleep(delay)` is over: delay *= 2 and the next pass begins
Retry_sleep ==
    /\ rt_call.pc = "sleep"
    /\ rt_call' = [rt_call EXCEPT !.slept = Append(rt_call.slept, rt_call.delay),
                                  !.delay = rt_call.delay * 2,
                                  !.attempt = rt_call.attempt + 1,
                                  !.pc = "attempt"]
    /\ UNCHANGED <<now, pipeline_vars, cb_vars, ct_vars, bus_vars, sub_vars, cn_vars, gd_vars, hd_vars, ex_vars, run_vars, lp_vars, xp_vars, rc_vars>>

\* ======================================================================
\* Guardian  (src/core/guardian/guardian.py)
\* ======================================================================

\* Guardian.__init__: correlation_window defaults to 60 seconds
default_correlation_window == 60
\* handle_event keeps the last 100 events of the buffer
buffer_limit == 100

\* the correlation windows a Guardian under study is built with, in seconds
CorrelationWindows == {1}

\* the severities an event carries, lowest first
EventSeverities == <<"info", "warning", "error", "critical">>

\* what is reported to the Guardian: a service that is down, at any severity,
\* and the telemetry of the system resources watcher, always info
EventReports ==
    {[event_type |-> "service_down", severity |-> EventSeverities[s],
      data |-> [service_name |-> "web"]] : s \in 1..Len(EventSeverities)}
    \cup {[event_type |-> "edge_telemetry", severity |-> "info",
           data |-> [resource_type |-> "system"]]}

\* seconds between an event's timestamp and the moment the Guardian handles it
EventDelays == {0, 1}

\* Guardian._calculate_fingerprint: the digest is taken of the sorted items of
\* fingerprint_data, and is modelled by fingerprint_data itself (two different
\* dicts are taken to have different SHA-256 digests)
calculate_fingerprint(event) ==
    LET data == event.data
        optional == DOMAIN data \cap {"service_name", "resource_type"}
    IN [key \in {"event_type", "source", "severity"} \cup optional |->
           IF key \in optional THEN data[key] ELSE event[key]]

\* Guardian._determine_incident_type
determine_incident_type(events) ==
    LET event_types == {events[i].event_type : i \in 1..Len(events)} IN
    IF "service_down" \in event_types THEN "service_outage"
    ELSE IF "metric_threshold_exceeded" \in event_types THEN "metric_anomaly"
    ELSE IF "edge_device_offline" \in event_types THEN "edge_device_failure"
    ELSE "correlation_detected"

\* Guardian._determine_severity
determine_severity_Escalates(events) ==
    LET severities == {events[i].severity : i \in 1..Len(events)} IN
    IF severities \cap {"critical", "error"} # {} THEN "critical"
    ELSE IF "warning" \in severities THEN "medium"
    ELSE "low"
determine_severity(events) ==
    LET severities == {events[i].severity : i \in 1..Len(events)} IN
    IF "critical" \in severities THEN "critical"
    ELSE IF "error" \in severities THEN "high"
    ELSE IF "warning" \in severities THEN "medium"
    ELSE "low"

\* Guardian._create_incident (the incident_id, the timestamps and the
\* description are left out)
create_incident(events) ==
    [incident_type |-> determine_incident_type(events),
     severity |-> determine_severity(events),
     event_ids |-> [i \in 1..Len(events) |-> events[i].event_id],
     state |-> "open"]

\* Guardian._should_create_incident
should_create_incident(events) ==
    \E i \in 1..Len(events) : events[i].severity \in {"warning", "error", "critical"}

\* the events of the buffer inside the correlation window that ends at t
recent_events(event_buffer, correlation_window, t) ==
    SelectSeq(event_buffer, LAMBDA e : e.timestamp >= t - correlation_window)

\* the fingerprint correlate_events looks up and stores
dedup_fingerprint(events) == calculate_fingerprint(events[1])

\* Guardian.correlate_events at time t: the events of the incident it
\* returns, or <<>> when it returns None
correlate_events(event_buffer, incident_fingerprints, correlation_window, t) ==
    LET recent == recent_events(event_buffer, correlation_window, t) IN
    IF ~should_create_incident(event_buffer) THEN <<>>
    ELSE IF recent = <<>> THEN <<>>
    ELSE IF dedup_fingerprint(recent) \in incident_fingerprints THEN <<>>
    ELSE recent

\* the last buffer_limit events
bounded(event_buffer) ==
    IF Len(event_buffer) > buffer_limit
    THEN SubSeq(event_buffer, Len(event_buffer) - buffer_limit + 1, Len(event_buffer))
    ELSE event_buffer

GuardianConstructed(correlation_window) ==
    /\ gd_correlation_window = correlation_window
    /\ gd_event_buffer = <<>>
    /\ gd_incident_fingerprints = {}
    /\ gd_published = <<>>
    /\ gd_last = "none"

\* Guardian.handle_event(event); bus.publish either accepts the incident or
\* raises, and handle_event swallows what it raises
Guardian_handle_event ==
    /\ Len(gd_event_buffer) < MaxEvents
    /\ \E report \in EventReports, delay \in EventDelays, accepted \in BOOLEAN :
          LET event == [event_id |-> Len(gd_event_buffer) + 1,
                        event_type |-> report.event_type,
                        source |-> "watcher",
                        severity |-> report.severity,
                        timestamp |-> now - delay,
                        data |-> report.data]
              event_buffer == bounded(Append(gd_event_buffer, event))
              correlated == correlate_events(event_buffer, gd_incident_fingerprints,
                                             gd_correlation_window, now)
          IN
          /\ gd_event_buffer' = event_buffer
          /\ IF correlated = <<>>
             THEN /\ accepted
                  /\ gd_last' = "no incident"
                  /\ UNCHANGED <<gd_incident_fingerprints, gd_published>>
             ELSE /\ gd_incident_fingerprints' =
                         gd_incident_fingerprints \cup {dedup_fingerprint(correlated)}
                  /\ gd_published' =
                         IF accepted
                         THEN Append(gd_published,
                                     [incident |-> create_incident(correlated),
                                      events |-> correlated])
                         ELSE gd_published
                  /\ gd_last' = IF accepted THEN "published" ELSE "publish failed"
    /\ UNCHANGED gd_correlation_window
    /\ UNCHANGED <<now, pipeline_vars, cb_vars, ct_vars, bus_vars, sub_vars, cn_vars, hd_vars, ex_vars, run_vars, lp_vars, more_vars>>

\* ======================================================================
\* An approval on its way: request to the Coordinator, decision to the Commander
\* ======================================================================

ExpiryConstructed ==
    xp_expires_at = [r \in ReqIds |-> NoTime]

\* the bus delivers the next approval_request the Brain published, whose
\* expires_at the Brain set (brain.py, _emit_approval_request), to the
\* Coordinator; xp_expires_at keeps that expires_at
Coordinator_handle_brain_request ==
    \E r \in {Cardinality(co_ingested) + 1} \cap ReqIds, expires_at \in 0..MaxTime :
        /\ handle_approval_request(r, expires_at)
        /\ xp_expires_at' = [xp_expires_at EXCEPT ![r] = expires_at]
        /\ UNCHANGED <<now, cmd_vars, br_vars, cb_vars, ct_vars, bus_vars, sub_vars, cn_vars, gd_vars, hd_vars, ex_vars, run_vars, lp_vars, rt_vars, rc_vars>>

\* the bus delivers the approval_decision the Coordinator published last,
\* once, to Commander.handle_approval_decision
Commander_handle_coordinator_decision ==
    /\ co_last.published
    /\ co_last.ret.approval_id \notin cmd_delivered
    /\ LET msg == [approval_id |-> co_last.ret.approval_id,
                   approval_request_id |-> co_last.ret.approval_request_id,
                   decision_id |-> co_last.ret.decision_id,
                   decision |-> co_last.ret.decision,
                   expires_at |-> co_last.ret.expires_at]
           k == msg.approval_id
       IN /\ cmd_delivered' = cmd_delivered \cup {k}
          /\ cmd_both_valid' =
                IF /\ k \in cmd_decision_seen
                   /\ msg.decision \in {"approve", "force"}
                   /\ msg.expires_at > now
                THEN cmd_both_valid \cup {k} ELSE cmd_both_valid
          /\ cmd_denied' = IF msg.decision = "deny" THEN cmd_denied \cup {k}
                           ELSE cmd_denied
          /\ cmd_pending_approvals' = StoreApproval(cmd_pending_approvals, msg, now)
    /\ UNCHANGED <<now, cmd_safe_actions, cmd_last_outcome, cmd_exec_total,
                   cmd_approved_exec, cmd_refused_after_use, cmd_decision_seen>>
    /\ UNCHANGED <<co_vars, br_vars, ext_vars>>

\* ======================================================================
\* ApprovalCoordinator: operations on one request from several threads
\* ======================================================================
\* approve, deny, force and check_expired_approvals are plain methods that
\* hold no lock; a thread can be switched between any two statements.  Each
\* action below is one statement that touches pending_approvals, decisions
\* or the bus; the arguments pass identity and reason validation.

CallerIds == 1..NumCallers

CoordinatorOps == {"approve", "deny", "force", "check_expired_approvals"}

NoSettled == [decision |-> None, caller |-> 0]

Idle == [op |-> None, pc |-> "idle", error |-> None]

RaceConstructed ==
    /\ rc_pending = FALSE
    /\ rc_expires_at = NoTime
    /\ rc_decisions = NoSettled
    /\ rc_published = <<>>
    /\ rc_escalated = 0
    /\ rc_calls = [t \in CallerIds |-> Idle]

beside_race == <<cmd_vars, co_vars, br_vars, cb_vars, ct_vars, bus_vars, sub_vars, cn_vars, gd_vars, hd_vars, ex_vars, run_vars, lp_vars, rt_vars, xp_vars>>

\* the call of thread t moves to statement pc
goto(t, pc) == [rc_calls EXCEPT ![t].pc = pc]

\* the call of thread t ends with an exception nobody catches
raise(t, error) == [rc_calls EXCEPT ![t].pc = "raised", ![t].error = error]

\* handle_approval_request stores the request, once, before it expires
Race_handle_approval_request ==
    \E expires_at \in 0..(MaxTime + 1) :
        /\ rc_expires_at = NoTime
        /\ ~Expired(expires_at, now)
        /\ rc_expires_at' = expires_at
        /\ rc_pending' = TRUE
        /\ UNCHANGED <<now, rc_decisions, rc_published, rc_escalated, rc_calls, beside_race>>

\* a thread enters one of the operations
Coordinator_call ==
    \E t \in CallerIds, op \in CoordinatorOps :
        /\ rc_calls[t].pc = "idle"
        /\ rc_expires_at # NoTime
        /\ rc_calls' = [rc_calls EXCEPT
                          ![t] = [op |-> op, error |-> None,
                                  pc |-> IF op = "check_expired_approvals"
                                         THEN "scan" ELSE "lookup"]]
        /\ UNCHANGED <<now, rc_pending, rc_expires_at, rc_decisions, rc_published, rc_escalated, beside_race>>

\* if approval_request_id not in self.pending_approvals: return None
Admin_lookup ==
    \E t \in CallerIds :
        /\ rc_calls[t].pc = "lookup"
        /\ rc_calls' = goto(t, IF rc_pending THEN "read" ELSE "returned")
        /\ UNCHANGED <<now, rc_pending, rc_expires_at, rc_decisions, rc_published, rc_escalated, beside_race>>

\* request = self.pending_approvals[approval_request_id]
Admin_read ==
    \E t \in CallerIds :
        /\ rc_calls[t].pc = "read"
        /\ rc_calls' = IF ~rc_pending THEN raise(t, "KeyError")
                       ELSE goto(t, IF rc_calls[t].op = "approve" THEN "expiry"
                                    ELSE "store")
        /\ UNCHANGED <<now, rc_pending, rc_expires_at, rc_decisions, rc_published, rc_escalated, beside_race>>

\* approve only: if now >= expires_at: self._escalate_timeout(request)
Approve_expiry ==
    \E t \in CallerIds :
        /\ rc_calls[t].pc = "expiry"
        /\ IF Expired(rc_expires_at, now)
           THEN /\ rc_escalated' = rc_escalated + 1
                /\ rc_calls' = goto(t, "delete_expired")
           ELSE /\ rc_escalated' = rc_escalated
                /\ rc_calls' = goto(t, "store")
        /\ UNCHANGED <<now, rc_pending, rc_expires_at, rc_decisions, rc_published, beside_race>>

\* approve only: del self.pending_approvals[approval_request_id]; return None
Approve_delete_expired ==
    \E t \in CallerIds :
        /\ rc_calls[t].pc = "delete_expired"
        /\ rc_calls' = IF rc_pending THEN goto(t, "returned") ELSE raise(t, "KeyError")
        /\ rc_pending' = FALSE
        /\ UNCHANGED <<now, rc_expires_at, rc_decisions, rc_published, rc_escalated, beside_race>>

\* self.decisions[approval_request_id] = decision
Admin_store ==
    \E t \in CallerIds :
        /\ rc_calls[t].pc = "store"
        /\ rc_decisions' = [decision |-> rc_calls[t].op, caller |-> t]
        /\ rc_calls' = goto(t, "delete")
        /\ UNCHANGED <<now, rc_pending, rc_expires_at, rc_published, rc_escalated, beside_race>>

\* del self.pending_approvals[approval_request_id]
Admin_delete ==
    \E t \in CallerIds :
        /\ rc_calls[t].pc = "delete"
        /\ rc_calls' = IF rc_pending THEN goto(t, "publish") ELSE raise(t, "KeyError")
        /\ rc_pending' = FALSE
        /\ UNCHANGED <<now, rc_expires_at, rc_decisions, rc_published, rc_escalated, beside_race>>

\* self.bus.publish(decision, "approval_decision"), a failure is logged
Admin_publish ==
    \E t \in CallerIds, publish_ok \in BOOLEAN :
        /\ rc_calls[t].pc = "publish"
        /\ rc_published' = IF publish_ok
                           THEN Append(rc_published,
                                       [decision |-> rc_calls[t].op, caller |-> t])
                           ELSE rc_published
        /\ rc_calls' = goto(t, "returned")
        /\ UNCHANGED <<now, rc_pending, rc_expires_at, rc_decisions, rc_escalated, beside_race>>

\* check_expired_approvals: the loop over pending_approvals.items() takes the
\* request, if there is one, and compares its expires_at with now
Sweep_scan ==
    \E t \in CallerIds :
        /\ rc_calls[t].pc = "scan"
        /\ rc_calls' = goto(t, IF ~rc_pending THEN "returned"
                               ELSE IF Expired(rc_expires_at, now) THEN "scan_next_expired"
                               ELSE "scan_next")
        /\ UNCHANGED <<now, rc_pending, rc_expires_at, rc_decisions, rc_published, rc_escalated, beside_race>>

\* the loop asks the dict iterator for the next item: RuntimeError when the
\* dict changed size during the iteration
Sweep_scan_next ==
    \E t \in CallerIds :
        /\ rc_calls[t].pc \in {"scan_next", "scan_next_expired"}
        /\ rc_calls' = IF ~rc_pending THEN raise(t, "RuntimeError")
                       ELSE goto(t, IF rc_calls[t].pc = "scan_next_expired"
                                    THEN "sweep_read" ELSE "returned")
        /\ UNCHANGED <<now, rc_pending, rc_expires_at, rc_decisions, rc_published, rc_escalated, beside_race>>

\* request = self.pending_approvals[request_id]
Sweep_read ==
    \E t \in CallerIds :
        /\ rc_calls[t].pc = "sweep_read"
        /\ rc_calls' = IF rc_pending THEN goto(t, "escalate") ELSE raise(t, "KeyError")
        /\ UNCHANGED <<now, rc_pending, rc_expires_at, rc_decisions, rc_published, rc_escalated, beside_race>>

\* self._escalate_timeout(request)
Sweep_escalate ==
    \E t \in CallerIds :
        /\ rc_calls[t].pc = "escalate"
        /\ rc_escalated' = rc_escalated + 1
        /\ rc_calls' = goto(t, "sweep_delete")
        /\ UNCHANGED <<now, rc_pending, rc_expires_at, rc_decisions, rc_published, beside_race>>

\* del self.pending_approvals[request_id]
Sweep_delete ==
    \E t \in CallerIds :
        /\ rc_calls[t].pc = "sweep_delete"
        /\ rc_calls' = IF rc_pending THEN goto(t, "returned") ELSE raise(t, "KeyError")
        /\ rc_pending' = FALSE
        /\ UNCHANGED <<now, rc_expires_at, rc_decisions, rc_published, rc_escalated, beside_race>>

\* ======================================================================
\* Specifications, one per component
\* ======================================================================

\* the admin configuration in force while another component is under study
DefaultAdminConfig ==
    [telegram_chat_id |-> PyText("12345"), cli_identity |-> PyText("admin_user")]

\* the policy of a PolicyLoader that lists nothing
EmptyPolicy == [safe_actions |-> {}, risky_actions |-> {}]

\* the components beside the pipeline, as constructed
BesideConstructed ==
    /\ BreakerConstructed(DefaultBreaker)
    /\ TrackerConstructed
    /\ BusConstructed
    /\ SubscriptionConstructed
    /\ CouncilConstructed
    /\ GuardianConstructed(default_correlation_window)
    /\ DecisionCallConstructed
    /\ ExecutionConstructed
    /\ RunConstructed
    /\ FailuresConstructed
    /\ RetryConstructed
    /\ ExpiryConstructed
    /\ RaceConstructed

\* the pipeline as constructed, while a component beside it is under study
PipelineConstructed ==
    /\ CommanderConstructed({"acknowledge_incident"})
    /\ CoordinatorConstructed(DefaultAdminConfig)
    /\ BrainConstructed("N0", EmptyPolicy, NoTime, "none")

InitCmd ==
    /\ now = 0
    /\ \E safe_actions \in {{}, {"acknowledge_incident"}} :
          CommanderConstructed(safe_actions)
    /\ CoordinatorConstructed(DefaultAdminConfig)
    /\ BrainConstructed("N0", EmptyPolicy, NoTime, "none")
    /\ BesideConstructed

NextCmd ==
    \/ Tick
    \/ Commander_handle_approval_decision
    \/ Commander_handle_decision

SpecCmd == InitCmd /\ [][NextCmd]_vars

InitCoord ==
    /\ now = 0
    /\ CommanderConstructed({"acknowledge_incident"})
    /\ \E config \in AdminConfigs : CoordinatorConstructed(config)
    /\ BrainConstructed("N0", EmptyPolicy, NoTime, "none")
    /\ BesideConstructed

NextCoord ==
    \/ Tick
    \/ Coordinator_handle_approval_request
    \/ Coordinator_approve
    \/ Coordinator_deny
    \/ Coordinator_force
    \/ Coordinator_check_expired_approvals

SpecCoord == InitCoord /\ [][NextCoord]_vars

InitBrain ==
    /\ now = 0
    /\ CommanderConstructed({"acknowledge_incident"})
    /\ CoordinatorConstructed(DefaultAdminConfig)
    /\ \E level \in AutonomyLevels, policy \in Policies, cooldown \in Cooldowns,
          council \in CouncilSetups :
          /\ level = "N0" => (policy = EmptyPolicy /\ cooldown = NoTime)
          /\ BrainConstructed(level, policy, cooldown, council)
    /\ BesideConstructed

NextBrain ==
    \/ Tick
    \/ Brain_handle_incident
    \/ Brain_record_failure

SpecBrain == InitBrain /\ [][NextBrain]_vars

\* a Brain at N2 or N3, without Council, whose policy lists
\* acknowledge_incident as SAFE
InitBrainSafe ==
    /\ now = 0
    /\ CommanderConstructed({"acknowledge_incident"})
    /\ CoordinatorConstructed(DefaultAdminConfig)
    /\ \E level \in {"N2", "N3"}, cooldown \in Cooldowns :
          BrainConstructed(level,
                           [safe_actions |-> {"acknowledge_incident"}, risky_actions |-> {}],
                           cooldown, "none")
    /\ BesideConstructed

NextBrainSafe ==
    \/ Wait
    \/ Brain_handle_incident
    \/ Brain_record_failure

SpecBrainSafe == InitBrainSafe /\ [][NextBrainSafe]_vars

\* a Brain at N2 whose policy lists acknowledge_incident as SAFE, without or
\* with a Council, and the Commander that handles what it publishes
InitDispatch ==
    /\ now = 0
    /\ CommanderConstructed({"acknowledge_incident"})
    /\ CoordinatorConstructed(DefaultAdminConfig)
    /\ \E cooldown \in Cooldowns, council \in {"none", "configured"} :
          BrainConstructed("N2",
                           [safe_actions |-> {"acknowledge_incident"}, risky_actions |-> {}],
                           cooldown, council)
    /\ BesideConstructed

\* nothing in the pipeline calls record_failure on the Brain's breaker
NextDispatch ==
    \/ Tick
    \/ Brain_handle_incident
    \/ Commander_handle_published_decision

SpecDispatch == InitDispatch /\ [][NextDispatch]_vars

\* the Brain at N2 or N3 and the Commander, which also handles
\* EXECUTE_SAFE_ACTION decisions of other producers
InitLoop ==
    /\ now = 0
    /\ CommanderConstructed({"acknowledge_incident"})
    /\ CoordinatorConstructed(DefaultAdminConfig)
    /\ \E level \in {"N2", "N3"} :
          BrainConstructed(level,
                           [safe_actions |-> {"acknowledge_incident"}, risky_actions |-> {}],
                           NoTime, "none")
    /\ BesideConstructed

NextLoop ==
    \/ Tick
    \/ Brain_handle_incident
    \/ Commander_handle_published_decision
    \/ Commander_handle_safe_decision

SpecLoop == InitLoop /\ [][NextLoop]_vars

InitBreaker ==
    /\ now = 0
    /\ PipelineConstructed
    /\ \E setup \in BreakerSetups : BreakerConstructed(setup)
    /\ TrackerConstructed
    /\ BusConstructed
    /\ SubscriptionConstructed
    /\ CouncilConstructed
    /\ GuardianConstructed(default_correlation_window)
    /\ DecisionCallConstructed
    /\ ExecutionConstructed
    /\ RunConstructed
    /\ FailuresConstructed
    /\ RetryConstructed
    /\ ExpiryConstructed
    /\ RaceConstructed

NextBreaker ==
    \/ Tick
    \/ CircuitBreaker_record_failure
    \/ CircuitBreaker_record_success
    \/ CircuitBreaker_is_open

SpecBreaker == InitBreaker /\ [][NextBreaker]_vars

InitTracker ==
    /\ now = 0
    /\ PipelineConstructed
    /\ BesideConstructed

NextTracker ==
    \/ Tick
    \/ CooldownTracker_record_execution
    \/ CooldownTracker_check_cooldown

SpecTracker == InitTracker /\ [][NextTracker]_vars

InitBus ==
    /\ now = 0
    /\ PipelineConstructed
    /\ BesideConstructed

NextBus ==
    \/ EventBus_publish

SpecBus == InitBus /\ [][NextBus]_vars

NextSubscribe ==
    \/ EventBus_publish_event
    \/ Subscribe_start
    \/ Subscribe_read
    \/ Subscribe_process
    \/ Subscribe_interrupt

SpecSubscribe == InitBus /\ [][NextSubscribe]_vars

InitCouncil ==
    /\ now = 0
    /\ PipelineConstructed
    /\ BesideConstructed

NextCouncil ==
    \/ Council_validate_decision

SpecCouncil == InitCouncil /\ [][NextCouncil]_vars

NextAggregate ==
    \/ Council_aggregate_votes

SpecAggregate == InitCouncil /\ [][NextAggregate]_vars

InitGuardian ==
    /\ now = 0
    /\ PipelineConstructed
    /\ BreakerConstructed(DefaultBreaker)
    /\ TrackerConstructed
    /\ BusConstructed
    /\ SubscriptionConstructed
    /\ CouncilConstructed
    /\ DecisionCallConstructed
    /\ ExecutionConstructed
    /\ RunConstructed
    /\ FailuresConstructed
    /\ RetryConstructed
    /\ ExpiryConstructed
    /\ RaceConstructed
    /\ \E correlation_window \in CorrelationWindows :
          GuardianConstructed(correlation_window)

NextGuardian ==
    \/ Tick
    \/ Guardian_handle_event

SpecGuardian == InitGuardian /\ [][NextGuardian]_vars

InitDecision ==
    /\ now = 0
    /\ PipelineConstructed
    /\ BesideConstructed

NextDecision ==
    \/ Tick
    \/ Commander_handle_decision_alone

SpecDecision == InitDecision /\ [][NextDecision]_vars

InitExecute ==
    /\ now = 0
    /\ PipelineConstructed
    /\ BesideConstructed

NextExecute ==
    \/ Tick
    \/ Commander_execute_action

SpecExecute == InitExecute /\ [][NextExecute]_vars

InitRun ==
    /\ now = 0
    /\ PipelineConstructed
    /\ BesideConstructed

NextRun ==
    \/ Publish_to_commander
    \/ Commander_run_subscribe
    \/ Commander_run_loop
    \/ Commander_run_interrupt

SpecRun == InitRun /\ [][NextRun]_vars

\* the thread that called run() keeps running: a subscribe call that can be
\* made is made, a message waiting on the stream being read is read
SpecRunFair ==
    /\ SpecRun
    /\ WF_vars(Commander_run_subscribe)
    /\ WF_vars(Commander_run_loop)

\* ======================================================================
\* Properties
\* ======================================================================


\* ExternalValidator._retry_with_backoff on its own
InitRetry ==
    /\ now = 0
    /\ PipelineConstructed
    /\ BesideConstructed

NextRetry ==
    \/ Retry_call
    \/ Retry_attempt
    \/ Retry_sleep

SpecRetry == InitRetry /\ [][NextRetry]_vars

\* an awaited call returns or raises within its timeout, and a sleep ends
SpecRetryFair ==
    SpecRetry /\ WF_vars(Retry_attempt) /\ WF_vars(Retry_sleep)

\* an approval from the Coordinator's ingestion to the Commander's execution
InitExpiry ==
    /\ now = 0
    /\ PipelineConstructed
    /\ BesideConstructed

NextExpiry ==
    \/ Tick
    \/ Coordinator_handle_brain_request
    \/ Coordinator_force
    \/ Coordinator_check_expired_approvals
    \/ Commander_handle_coordinator_decision
    \/ Commander_handle_decision

SpecExpiry == InitExpiry /\ [][NextExpiry]_vars

\* the Commander's handlers with a clock that keeps running: nothing makes
\* the bus deliver any particular message
SpecCmdFair == SpecCmd /\ WF_vars(Tick)

\* approve, deny, force and check_expired_approvals on one pending request,
\* called from NumCallers threads
InitRace ==
    /\ now = 0
    /\ PipelineConstructed
    /\ BesideConstructed

NextRace ==
    \/ Tick
    \/ Race_handle_approval_request
    \/ Coordinator_call
    \/ Admin_lookup
    \/ Admin_read
    \/ Approve_expiry
    \/ Approve_delete_expired
    \/ Admin_store
    \/ Admin_delete
    \/ Admin_publish
    \/ Sweep_scan
    \/ Sweep_scan_next
    \/ Sweep_read
    \/ Sweep_escalate
    \/ Sweep_delete

SpecRace == InitRace /\ [][NextRace]_vars
\* an approval held in pending_approvals for decision d that may still be used at time t
HoldsValidApproval(d, t) ==
    \E i \in 1..Len(cmd_pending_approvals) :
        /\ cmd_pending_approvals[i].decision_id = d
        /\ cmd_pending_approvals[i].decision \in {"approve", "force"}
        /\ cmd_pending_approvals[i].expires_at > t

\* C1: the Commander publishes an outcome for a REQUEST_APPROVAL decision only
\* if, when it handles the decision, pending_approvals holds an approve or
\* force approval_decision for that decision_id whose expires_at is strictly
\* later than now.
C1_OutcomeOnlyWithValidApproval ==
    [][(/\ cmd_exec_total' > cmd_exec_total
        /\ cmd_last_outcome'.decision_type = "REQUEST_APPROVAL")
          => HoldsValidApproval(cmd_last_outcome'.action.decision_id, now)]_vars

C1_Witness ==
    /\ cmd_last_outcome.decision_type = "REQUEST_APPROVAL"
    /\ cmd_last_outcome.action.approval_id = 1
    /\ cmd_approved_exec[1] = 1

\* C7: whichever of handle_decision(D) and handle_approval_decision(A) runs
\* first, once both have been delivered and A (approve or force) is unexpired,
\* the Commander has executed D's action exactly once.
C7_EitherArrivalOrder ==
    \A k \in cmd_both_valid : cmd_approved_exec[k] = 1

\* C8: an approval used for an execution is gone from pending_approvals, and
\* no decision_id (hence no approval_decision) gets more than one approved
\* execution, however often its REQUEST_APPROVAL decision is handled again.
C8_OneTimeUse ==
    /\ [][\A d \in DecisionIds :
            cmd_approved_exec'[d] > cmd_approved_exec[d]
                => \A i \in 1..Len(cmd_pending_approvals') :
                      cmd_pending_approvals'[i].approval_id # d]_vars
    /\ [](\A d \in DecisionIds : cmd_approved_exec[d] <= 1)

C8_Witness ==
    /\ cmd_approved_exec[1] = 1
    /\ 1 \in cmd_refused_after_use

\* C23: a denied request never executes: pending_approvals never holds an
\* approval_decision whose decision is deny, and the REQUEST_APPROVAL decision
\* a deny answers gets no execution and no outcome.
C23_DeniedNeverExecutes ==
    /\ \A i \in 1..Len(cmd_pending_approvals) :
          cmd_pending_approvals[i].decision # "deny"
    /\ \A k \in cmd_denied :
          /\ cmd_approved_exec[k] = 0
          /\ ~(/\ cmd_last_outcome.decision_type = "REQUEST_APPROVAL"
               /\ cmd_last_outcome.action.decision_id = k)

C23_Witness ==
    /\ 1 \in cmd_denied
    /\ 1 \in cmd_decision_seen
    /\ 2 \in cmd_delivered \ cmd_denied
    /\ cmd_approved_exec[2] = 1
    /\ cmd_approved_exec[1] = 0


\* C39: every approval_decision stored in the Commander's pending_approvals
\* is eventually removed, consumed by its decision or dropped once expired,
\* whether or not a decision with a matching decision_id is delivered
C39_StoredApprovalEventuallyRemoved ==
    \A k \in ApprovalIds :
        (\E i \in 1..Len(cmd_pending_approvals) :
            cmd_pending_approvals[i].approval_id = k)
        ~> (\A i \in 1..Len(cmd_pending_approvals) :
               cmd_pending_approvals[i].approval_id # k)

\* C2: an approve or force call by the verified admin on a pending request
\* whose expires_at has been reached returns nothing, publishes nothing and
\* removes the request from pending; no approve or force approval_decision is
\* published for a request that had expired when the call was made.
C2_SilenceIsNeverPermission ==
    /\ (/\ co_last.op \in {"approve", "force"}
        /\ co_last.verified
        /\ co_last.was_pending
        /\ co_last.expired)
          => /\ co_last.ret = NoDecision
             /\ ~co_last.published
             /\ co_pending_approvals[co_last.approval_request_id] = NoRequest
    /\ (co_last.published /\ co_last.ret.decision \in {"approve", "force"})
          => ~co_last.expired

\* C9 as stated: a decision the coordinator produces came through telegram or
\* cli, that channel has a configured identity, and the decision's
\* admin_identity is equal to it.
C9_IdentityEqualsConfigured ==
    co_last.ret # NoDecision
       => /\ co_last.ret.source \in {"telegram", "cli"}
          /\ get_admin_identity(co_last.ret.source) # PyNone
          /\ PyEq(co_last.ret.admin_identity, get_admin_identity(co_last.ret.source))

\* C9: a decision the coordinator produces came through telegram or cli, that
\* channel has a configured identity, and the decision's admin_identity has
\* the same string form as the configured telegram_chat_id (telegram) or is
\* equal to the configured cli_identity (cli); no other call produces one.
C9_IdentityMatchesConfigured ==
    co_last.ret # NoDecision
       => /\ co_last.ret.source \in {"telegram", "cli"}
          /\ get_admin_identity(co_last.ret.source) # PyNone
          /\ IF co_last.ret.source = "telegram"
             THEN str(co_last.ret.admin_identity) = str(co_telegram_chat_id)
             ELSE PyEq(co_last.ret.admin_identity, co_cli_identity)

C9_Witness ==
    /\ co_last.op = "approve"
    /\ co_last.ret.source = "telegram"
    /\ co_last.ret.admin_identity = PyInt(12345)
    /\ co_telegram_chat_id = PyText("12345")
    /\ co_last.published

\* C10: no approval_request_id ever has more than one approval_decision; a
\* request that has its decision is no longer pending, whether or not the
\* decision reached the bus; and a call returns a decision only for a request
\* that was pending when it was made, so every later admin call on a settled
\* id returns nothing.
C10_ConsumedExactlyOnce ==
    /\ \A r \in ReqIds :
          /\ co_decisions_made[r] <= 1
          /\ co_published[r] <= co_decisions_made[r]
          /\ co_decisions_made[r] = 1 => co_pending_approvals[r] = NoRequest
    /\ co_last.ret # NoDecision
          => /\ co_last.was_pending
             /\ co_decisions_made[co_last.approval_request_id] = 1

C10_Witness ==
    /\ co_decisions_made[1] = 1
    /\ co_published[1] = 0
    /\ co_last.op = "approve"
    /\ co_last.approval_request_id = 1
    /\ co_last.verified
    /\ co_last.ret = NoDecision

\* a step of handle_approval_request, and one of check_expired_approvals
IngestStep == co_ingested' # co_ingested
SweepStep == co_last'.op = "check_expired_approvals" /\ now' = now

\* C35: handle_approval_request and check_expired_approvals never publish an
\* approval_decision; a request that arrives with expires_at <= now is never
\* stored in pending, and after a sweep pending holds exactly the previously
\* pending requests whose expires_at is later than now.
C35_TimeoutOnlyEscalates ==
    /\ [][ (IngestStep \/ SweepStep)
             => /\ co_published' = co_published
                /\ co_decisions_made' = co_decisions_made
                /\ co_last'.ret = NoDecision ]_vars
    /\ [][ IngestStep
             => \A r \in ReqIds :
                   co_pending_approvals'[r] # co_pending_approvals[r]
                      => /\ r \in co_ingested' \ co_ingested
                         /\ co_pending_approvals'[r].expires_at > now ]_vars
    /\ [][ SweepStep
             => \A r \in ReqIds :
                   co_pending_approvals'[r] =
                      IF /\ co_pending_approvals[r] # NoRequest
                         /\ co_pending_approvals[r].expires_at > now
                      THEN co_pending_approvals[r] ELSE NoRequest ]_vars

\* a sweep at the very second the pending request expires drops it, and no
\* decision was ever made for it
C35_Witness ==
    /\ co_last.op = "check_expired_approvals"
    /\ co_last.expired
    /\ now = 1
    /\ co_pending_approvals[1] = NoRequest
    /\ 1 \in co_ingested
    /\ co_decisions_made[1] = 0

\* a step of approve, deny or force that returned nothing although the
\* request, if pending, had not expired
RejectedStep ==
    /\ co_last' # co_last
    /\ co_last'.op \in {"approve", "deny", "force"}
    /\ co_last'.ret = NoDecision
    /\ ~(co_last'.verified /\ co_last'.was_pending /\ co_last'.expired)

\* C36: an admin operation rejected for identity mismatch, unknown channel,
\* unknown request id or invalid reason (empty after stripping for approve and
\* deny, fewer than 10 stripped characters for force) returns nothing,
\* publishes nothing and leaves the pending and settled mappings unchanged;
\* a verified call on a pending, unexpired request is rejected only for such
\* a reason.
C36_RejectionChangesNothing ==
    [][ RejectedStep
             => /\ ~co_last'.published
                /\ UNCHANGED <<co_pending_approvals, co_decisions_made, co_published>>
                /\ (co_last'.verified /\ co_last'.was_pending)
                      => co_last'.reason_length <
                            (IF co_last'.op = "force" THEN 10 ELSE 1) ]_vars

\* a force with a reason of two letters among blanks is rejected and the
\* request it named is still pending and unexpired
C36_Witness ==
    /\ co_last.op = "force"
    /\ co_last.verified
    /\ co_last.was_pending
    /\ co_last.ret = NoDecision
    /\ co_last.reason_length = 2
    /\ co_pending_approvals[co_last.approval_request_id] # NoRequest
    /\ co_pending_approvals[co_last.approval_request_id].expires_at > now

\* the action the Brain chose for the latest incident
LastActionType == determine_action_type([severity |-> br_last.severity])

\* C3: at level N0 the decision the Brain hands to the bus is NO_ACTION, has
\* no proposed_action and has requires_approval false, before and after the
\* Council, and no approval_request is emitted.
C3_N0AlwaysNoAction ==
    (br_autonomy_level = "N0" /\ br_handled > 0)
       => /\ br_last.decision.decision_type = "NO_ACTION"
          /\ br_last.decision.proposed_action = NoProposedAction
          /\ br_last.decision.requires_approval = FALSE
          /\ br_last.request = NoApprovalRequest

C3_Witness ==
    /\ br_autonomy_level = "N0"
    /\ br_last.severity = "critical"
    /\ br_last.council = "BLOCKED"
    /\ br_last.published
    /\ br_last.decision.decision_type = "NO_ACTION"

\* C4: at level N2 a decision that carries a proposed_action names an action
\* of the policy SAFE set; when the chosen action classifies as RISKY or
\* UNKNOWN the decision is NO_ACTION; no approval_request is emitted.
C4_N2OnlySafe ==
    (br_autonomy_level = "N2" /\ br_handled > 0)
       => /\ \A d \in {br_last.decided, br_last.decision} :
                d.proposed_action # NoProposedAction
                   => d.proposed_action.action_type \in br_safe_actions
          /\ (/\ LastActionType # None
              /\ classify_action(LastActionType) \in {"RISKY", "UNKNOWN"})
                => /\ br_last.decided.decision_type = "NO_ACTION"
                   /\ br_last.decision.decision_type = "NO_ACTION"
          /\ br_last.request = NoApprovalRequest

C4_Witness ==
    /\ br_autonomy_level = "N2"
    /\ br_last.severity = "high"
    /\ br_risky_actions = {"acknowledge_incident"}
    /\ br_safe_actions = {}
    /\ br_last.decision.decision_type = "NO_ACTION"
    /\ br_last.decision.safety_classification = "RISKY"
    /\ br_last.published

\* C5: a decision the Brain publishes has requires_approval true exactly
\* when its decision_type is REQUEST_APPROVAL.
C5_RequiresApprovalIffRequest ==
    br_last.published
       => (br_last.decision.requires_approval
              <=> br_last.decision.decision_type = "REQUEST_APPROVAL")

\* C6: when validate_decision returns BLOCKED or raises, the decision handed
\* to the bus is NO_ACTION without proposed_action; when it returns APPROVED
\* or ESCALATE_TO_ADMIN it is the decision as decided.
C6_CouncilFailClosed ==
    /\ br_last.council \in {"BLOCKED", "raise"}
          => /\ br_last.decision.decision_type = "NO_ACTION"
             /\ br_last.decision.proposed_action = NoProposedAction
    /\ br_last.council \in {"APPROVED", "ESCALATE_TO_ADMIN"}
          => br_last.decision = br_last.decided

C6_Witness ==
    /\ br_last.council = "raise"
    /\ br_last.decided.decision_type = "EXECUTE_SAFE_ACTION"
    /\ br_last.decided.proposed_action.action_type = "acknowledge_incident"
    /\ br_last.decision.decision_type = "NO_ACTION"
    /\ br_last.published

\* the latest incident was handled at N3 and its action is RISKY or UNKNOWN
N3NeedsApproval ==
    /\ br_autonomy_level = "N3"
    /\ br_handled > 0
    /\ LastActionType # None
    /\ classify_action(LastActionType) \in {"RISKY", "UNKNOWN"}

\* _decide_n3 returned a REQUEST_APPROVAL decision with requires_approval
\* true, classification RISKY and the chosen action proposed
RequestsApproval(decision) ==
    /\ decision.decision_type = "REQUEST_APPROVAL"
    /\ decision.requires_approval
    /\ decision.safety_classification = "RISKY"
    /\ decision.proposed_action # NoProposedAction
    /\ decision.proposed_action.action_type = LastActionType

\* the approval_request handed to the bus belongs to the decision and expires
\* approval_timeout after its creation
RequestMatches(request, decision) ==
    /\ request # NoApprovalRequest
    /\ request.decision_id = decision.decision_id
    /\ request.action_type = decision.proposed_action.action_type
    /\ request.timestamp \in 0..now
    /\ request.expires_at = request.timestamp + approval_timeout

\* C22: in N3, when the chosen action classifies as RISKY or UNKNOWN, the
\* Brain decides REQUEST_APPROVAL with requires_approval true, classification
\* RISKY and a proposed_action, and every such decision it publishes has
\* exactly one approval_request on the bus with the same decision_id and
\* action_type and expires_at = creation time + approval_timeout.
C22_RequestOnBus ==
    N3NeedsApproval
       => /\ RequestsApproval(br_last.decided)
          /\ (br_last.published /\ br_last.decision.decision_type = "REQUEST_APPROVAL")
                => /\ RequestMatches(br_last.request, br_last.decision)
                   /\ br_last.request_published

\* C22 as the code has it: the approval_request is handed to the bus exactly
\* once, before the decision is published; it is on the bus only if that
\* publish succeeded
C22_RequestHandedToBus ==
    N3NeedsApproval
       => /\ RequestsApproval(br_last.decided)
          /\ RequestMatches(br_last.request, br_last.decided)
          /\ (br_last.published /\ br_last.decision.decision_type = "REQUEST_APPROVAL")
                => RequestMatches(br_last.request, br_last.decision)

C22_Witness ==
    /\ N3NeedsApproval
    /\ br_last.published
    /\ br_last.decision.decision_type = "REQUEST_APPROVAL"
    /\ br_last.request_published
    /\ br_last.request.timestamp = 1
    /\ br_last.request.expires_at = 1 + approval_timeout

\* the Brain's circuit breaker is open at time t
BreakerOpen(t) ==
    br_cb_opened # NoTime /\ t - br_cb_opened < cb_circuit_open_duration

\* a cooldown of the chosen action is active at time t
CooldownActive(t) ==
    /\ br_cooldown \notin {NoTime, 0}
    /\ br_last_execution # NoTime
    /\ t - br_last_execution < br_cooldown

\* this step is handle_incident on an incident whose chosen action is SAFE
DecidesSafeAction ==
    /\ br_handled' = br_handled + 1
    /\ br_autonomy_level \in {"N2", "N3"}
    /\ determine_action_type([severity |-> br_last'.severity]) # None
    /\ classify_action(determine_action_type([severity |-> br_last'.severity])) = "SAFE"

\* C25: while the circuit breaker of the chosen SAFE action is open, a Brain
\* in N2 or N3 never decides EXECUTE_SAFE_ACTION: it decides NO_ACTION with
\* reasoning that mentions the open circuit breaker; once the open duration
\* has elapsed, the same incident yields EXECUTE_SAFE_ACTION again.
C25_OpenBreakerNamed ==
    [][DecidesSafeAction =>
         /\ BreakerOpen(now)
               => /\ br_last'.decided.decision_type = "NO_ACTION"
                  /\ br_last'.decided.reasoning = <<"circuit_open">>
         /\ (br_cb_opened # NoTime /\ ~BreakerOpen(now))
               => br_last'.decided.decision_type = "EXECUTE_SAFE_ACTION"]_vars

\* C25 as the code has it: the cooldown is checked before the breaker, so
\* the reasoning names the breaker only when no cooldown is active
C25_OpenBreakerBlocks ==
    [][DecidesSafeAction =>
         /\ BreakerOpen(now)
               => /\ br_last'.decided.decision_type = "NO_ACTION"
                  /\ br_last'.decided.reasoning =
                        IF CooldownActive(now) THEN <<"cooldown_active">>
                        ELSE <<"circuit_open">>
         /\ (br_cb_opened # NoTime /\ ~BreakerOpen(now) /\ ~CooldownActive(now))
               => /\ br_last'.decided.decision_type = "EXECUTE_SAFE_ACTION"
                  /\ br_cb_opened' = NoTime]_vars

\* three failures opened the breaker and the incident that followed was
\* refused in its name
C25_Witness ==
    /\ BreakerOpen(now)
    /\ Len(br_cb_failures) = failure_threshold
    /\ br_handled > 0
    /\ br_last.severity = "medium"
    /\ br_last.decided.decision_type = "NO_ACTION"
    /\ br_last.decided.reasoning = <<"circuit_open">>

\* C27: in N2 and N3, for a SAFE action with a policy cooldown c > 0, an
\* EXECUTE_SAFE_ACTION decision is made only when the previous one for the
\* action lies at least c back, and its time is recorded as the start of the
\* cooldown before Council validation, so also when the Council blocks it.
C27_CooldownBetweenExecutions ==
    [][(/\ br_handled' = br_handled + 1
        /\ br_autonomy_level \in {"N2", "N3"}
        /\ br_cooldown \notin {NoTime, 0})
          => IF br_last'.decided.decision_type = "EXECUTE_SAFE_ACTION"
             THEN /\ br_last_execution # NoTime => now - br_last_execution >= br_cooldown
                  /\ br_last_execution' = now
             ELSE br_last_execution' = br_last_execution]_vars

\* the second EXECUTE_SAFE_ACTION came one cooldown after the first and was
\* blocked by the Council, yet it started the cooldown
C27_Witness ==
    /\ br_cooldown = 1
    /\ br_handled = 2
    /\ now = 1
    /\ br_last_execution = 1
    /\ br_last.decided.decision_type = "EXECUTE_SAFE_ACTION"
    /\ br_last.council = "BLOCKED"
    /\ br_last.decision.decision_type = "NO_ACTION"


\* C38: for every approval_request the Brain publishes, the decision it
\* publishes with the same decision_id has decision_type REQUEST_APPROVAL
C38_RequestPairedWithApprovalDecision ==
    ( /\ br_last.request # NoApprovalRequest
      /\ br_last.request_published
      /\ br_last.published
      /\ br_last.decision.decision_id = br_last.request.decision_id )
       => br_last.decision.decision_type = "REQUEST_APPROVAL"

\* ------------------------------------------------------------------
\* C11: the circuit opens exactly when the in-window failures reach the
\* threshold: an is_open query made straight after a record_failure call
\* that left at least failure_threshold failures recorded returns true, and
\* a call that finds the circuit not open leaves it open only if it is a
\* record_failure that left at least failure_threshold failures recorded.
C11_OpensExactlyAtThreshold ==
    /\ (cb_last.op = "is_open" /\ cb_last.after_threshold) => cb_last.ret
    /\ (/\ cb_last.op # None
        /\ cb_last.opened_before = NoTime
        /\ cb_circuit_opened[cb_last.action_type] # NoTime)
       => (cb_last.op = "record_failure" /\ cb_last.recorded >= cb_failure_threshold)

\* ------------------------------------------------------------------
\* C12: a circuit opened at t0 stays open until t0 + circuit_open_duration:
\* record_success and record_failure leave opened_at where it is, is_open
\* before t0 + circuit_open_duration returns true and changes nothing, and
\* is_open at or after it returns false and clears opened_at and the failures.
C12_OpenUntilDurationElapsed ==
    (cb_last.op # None /\ cb_last.opened_before # NoTime) =>
        LET action_type == cb_last.action_type
            t0 == cb_last.opened_before
        IN
        /\ cb_last.op \in {"record_failure", "record_success"}
              => cb_circuit_opened[action_type] = t0
        /\ (cb_last.op = "is_open" /\ cb_last.at < t0 + cb_circuit_open_duration)
              => (cb_last.ret /\ cb_circuit_opened[action_type] = t0)
        /\ (cb_last.op = "is_open" /\ cb_last.at >= t0 + cb_circuit_open_duration)
              => /\ ~cb_last.ret
                 /\ cb_circuit_opened[action_type] = NoTime
                 /\ cb_failures[action_type] = <<>>

\* an is_open query found the circuit opened and its duration elapsed
C12_Witness ==
    /\ cb_last.op = "is_open"
    /\ cb_last.opened_before # NoTime
    /\ cb_last.at >= cb_last.opened_before + cb_circuit_open_duration
    /\ ~cb_last.ret

\* ------------------------------------------------------------------
\* C13: check_cooldown returns false exactly when cooldown_seconds > 0, the
\* (action, key) pair was recorded at some t (None and "" naming the same
\* pair) and the query is made in [t, t + cooldown_seconds).
C13_CooldownWindow ==
    ct_last.op = "check_cooldown" =>
        LET key == IF ct_last.applies_per_key = None THEN ""
                   ELSE ct_last.applies_per_key
            t == ct_last_execution[<<ct_last.action_type, key>>]
            c == ct_last.cooldown_seconds
        IN ct_last.ret = ~(c > 0 /\ t # NoTime /\ t <= ct_last.at /\ ct_last.at < t + c)

\* a check made when a positive cooldown had just run out, after a record
\* under the None key and a check under the "" key
C13_Witness ==
    /\ ct_last.op = "check_cooldown"
    /\ ct_last.applies_per_key = ""
    /\ ct_last.cooldown_seconds > 0
    /\ ct_last_execution[<<ct_last.action_type, "">>] # NoTime
    /\ ct_last.at = ct_last_execution[<<ct_last.action_type, "">>] + ct_last.cooldown_seconds
    /\ ct_last.ret

\* value is made of JSON values only: None, int, str, lists, and dicts with
\* str keys
RECURSIVE IsJsonValue(_)
IsJsonValue(value) ==
    IF value[1] \in {"none", "int", "str"} THEN TRUE
    ELSE IF value[1] = "list"
    THEN \A i \in 1..Len(value[2]) : IsJsonValue(value[2][i])
    ELSE IF value[1] = "dict"
    THEN \A i \in 1..Len(value[2]) :
            value[2][i][1][1] = "str" /\ IsJsonValue(value[2][i][2])
    ELSE FALSE

\* the latest publish raised and left every stream as it found it
RaisedWithoutEffect ==
    /\ bus_last.outcome \in {"ValueError", "ValidationError", "TypeError"}
    /\ bus_streams = bus_last.streams_before

\* ------------------------------------------------------------------
\* C14: the stream of each kind holds exactly the messages whose publish
\* passed validation, in publication order and each equal to the message
\* published; a publish that fails validation or names a kind without
\* schema raises and leaves every stream unchanged.
C14_StreamHoldsPublished ==
    /\ \A kind \in ContractKinds : read_stream(kind) = bus_passed[kind]
    /\ (bus_last.kind # None /\ validate(bus_last.message, bus_last.kind) # "ok")
          => RaisedWithoutEffect
    /\ (bus_last.kind # None /\ bus_last.kind \notin ContractKinds)
          => bus_last.outcome = "ValueError"

\* C14, amended: the stream of each kind holds exactly the messages that
\* passed validation and that json.dumps can serialise, in publication
\* order, each as json.loads(json.dumps(message)) gives it back, which is
\* the message itself when it is made of JSON values only; a publish that
\* fails validation, names a kind without schema or cannot be serialised
\* raises and leaves every stream unchanged.
C14_StreamHoldsJsonOfPublished ==
    /\ \A kind \in ContractKinds :
          LET kept == SelectSeq(bus_passed[kind], serialisable)
              read == read_stream(kind)
          IN /\ Len(read) = Len(kept)
             /\ \A i \in 1..Len(kept) :
                   /\ read[i] = json_loads(json_dumps(kept[i]))
                   /\ IsJsonValue(kept[i]) => read[i] = kept[i]
    /\ (/\ bus_last.kind # None
        /\ \/ validate(bus_last.message, bus_last.kind) # "ok"
           \/ ~serialisable(bus_last.message))
          => RaisedWithoutEffect
    /\ (bus_last.kind # None /\ bus_last.kind \notin ContractKinds)
          => bus_last.outcome = "ValueError"

\* two events are in the stream, one published with a tuple, and the latest
\* publish was rejected by the schema
C14_Witness ==
    /\ Len(bus_streams["event"]) = 2
    /\ \E i \in 1..2 : ~IsJsonValue(bus_returned["event"][i])
    /\ \E i \in 1..2 : IsJsonValue(bus_returned["event"][i])
    /\ bus_last.outcome = "ValidationError"

VetoingValidations(all_validations) ==
    {i \in 1..Len(all_validations) :
        /\ all_validations[i].confidence >= safety_veto_threshold
        /\ \E k \in 1..Len(safety_keywords) :
              contains(lower(all_validations[i].critique), safety_keywords[k])}

\* C16: whenever one of the validations validate_decision collected, local
\* or external, has a confidence at or above the veto threshold and a critique
\* holding a safety-concern keyword, validate_decision returns BLOCKED with
\* confidence 0, whatever the other validators answered
C16_SafetyVetoDominates ==
    (cn_last.result # None /\ VetoingValidations(cn_last.all_validations) # {})
        => (cn_last.result = "BLOCKED" /\ cn_last.confidence = 0)

\* a veto against two validators approving with high confidence, where the
\* weighted vote alone approves
C16_Witness ==
    /\ cn_last.result = "BLOCKED"
    /\ Len(cn_last.all_validations) = 3
    /\ Cardinality(VetoingValidations(cn_last.all_validations)) = 1
    /\ aggregate_votes(cn_last.all_validations, FALSE).result = "APPROVED"
    /\ \E i, j \in 1..3 :
          /\ i # j
          /\ \A k \in {i, j} :
                /\ cn_last.all_validations[k].confidence = 95
                /\ parse_critique_vote(cn_last.all_validations[k].critique) = 1
                /\ k \notin VetoingValidations(cn_last.all_validations)

\* the critique holds an approve keyword and no blocker keyword
Approves(critique) ==
    /\ \E k \in 1..Len(APPROVE_KEYWORDS) : contains(lower(critique), APPROVE_KEYWORDS[k])
    /\ ~\E k \in 1..Len(BLOCK_KEYWORDS) : contains(lower(critique), BLOCK_KEYWORDS[k])

\* the sum of the confidences of the validations at the positions wanted
RECURSIVE Weight(_, _)
Weight(validations, positions) ==
    IF positions = {} THEN 0
    ELSE LET i == CHOOSE p \in positions : TRUE IN
         validations[i].confidence + Weight(validations, positions \ {i})

\* C29: aggregate_votes returns APPROVED exactly when some validation has a
\* confidence above 0 and the confidence-weighted average of the votes (1 only
\* for a critique with an approve keyword and no blocker keyword) is at least
\* the confidence threshold, and BLOCKED otherwise; for an empty list or
\* confidences all 0 it returns BLOCKED with confidence 0.
C29_ApprovedIffWeightedMajority ==
    cn_last.result # None =>
        LET validations == cn_last.all_validations
            counted == {i \in 1..Len(validations) : validations[i].confidence > 0}
            approving == {i \in counted : Approves(validations[i].critique)}
        IN /\ cn_last.result =
                 IF /\ counted # {}
                    /\ Weight(validations, approving) * 100
                          >= confidence_threshold * Weight(validations, counted)
                 THEN "APPROVED" ELSE "BLOCKED"
           /\ counted = {} => (cn_last.result = "BLOCKED" /\ cn_last.confidence = 0)

\* C30: validate_decision never returns APPROVED for a decision classified
\* RISKY unless the aggregated confidence is at least 0.9: when no validation
\* vetoes and the vote is APPROVED with a confidence below 0.9, the decision
\* classified RISKY gets ESCALATE_TO_ADMIN with that confidence.
C30_RiskyApprovalNeedsHighBar ==
    (cn_last.result # None /\ cn_last.classification = "RISKY") =>
        LET vote == aggregate_votes(cn_last.all_validations, cn_last.rounds_down) IN
        /\ cn_last.result = "APPROVED" => cn_last.confidence >= 90
        /\ ( /\ ~safety_veto(cn_last.all_validations)
             /\ vote.result = "APPROVED"
             /\ vote.confidence < 90 )
              => /\ cn_last.result = "ESCALATE_TO_ADMIN"
                 /\ cn_last.confidence = vote.confidence

\* a RISKY decision whose validators approve with a weighted vote between the
\* confidence threshold and 0.9 is escalated to the admin
C30_Witness ==
    /\ cn_last.classification = "RISKY"
    /\ cn_last.result = "ESCALATE_TO_ADMIN"
    /\ cn_last.confidence >= confidence_threshold
    /\ cn_last.confidence < 90
    /\ Len(cn_last.all_validations) = 3

\* C31: validate_decision consults the local validator first and then calls
\* the external validator exactly once if and only if the local confidence is
\* below the confidence threshold (a local validator that raised counts as
\* confidence 0) or the decision is classified RISKY; for a SAFE decision with
\* local confidence at or above the threshold the external one is never called.
C31_StagedValidationOrder ==
    (cn_last.result # None /\ cn_last.classification # None) =>
        LET called == cn_last.called
            local_confidence == cn_last.all_validations[1].confidence
            external_calls == Cardinality({i \in 1..Len(called) : called[i] = "external"})
        IN /\ called # <<>> /\ called[1] = "local"
           /\ Cardinality({i \in 1..Len(called) : called[i] = "local"}) = 1
           /\ external_calls =
                 IF local_confidence < 70 \/ cn_last.classification = "RISKY"
                 THEN 1 ELSE 0

\* a SAFE decision the local validator is exactly 0.7 confident about is
\* settled without the external validator
C31_Witness ==
    /\ cn_last.classification = "SAFE"
    /\ cn_last.result = "APPROVED"
    /\ cn_last.all_validations[1].confidence = 70
    /\ cn_last.called = <<"local">>

\* ----------------------------------------------------------------------
\* Guardian
\* ----------------------------------------------------------------------

\* the place of a severity in info < warning < error < critical
SeverityRank(severity) ==
    CHOOSE r \in 1..Len(EventSeverities) : EventSeverities[r] = severity

\* info to low, warning to medium, error to high, critical to critical
MappedSeverity == <<"low", "medium", "high", "critical">>

\* the events an incident lists in its event_ids
MemberEvents(published) ==
    {published.events[i] : i \in {j \in 1..Len(published.events) :
        \E k \in 1..Len(published.incident.event_ids) :
            published.incident.event_ids[k] = published.events[j].event_id}}

\* the highest rank among the severities of a set of events
MaxRank(events) ==
    CHOOSE r \in 1..Len(EventSeverities) :
        /\ \E e \in events : SeverityRank(e.severity) = r
        /\ \A e \in events : SeverityRank(e.severity) <= r

\* C17: every incident the Guardian published lists at least one event, and
\* its severity is the mapped highest severity of the events listed in its
\* event_ids, never a higher one
C17_SeverityIsMappedMaximum ==
    \A n \in 1..Len(gd_published) :
        /\ MemberEvents(gd_published[n]) # {}
        /\ gd_published[n].incident.severity =
               MappedSeverity[MaxRank(MemberEvents(gd_published[n]))]

\* a published incident of severity high that lists an info and an error
\* event, published after an incident of another severity
C17_Witness ==
    \E n \in 1..Len(gd_published) :
        /\ gd_published[n].incident.severity = "high"
        /\ {e.severity : e \in MemberEvents(gd_published[n])}
               = {"info", "error"}
        /\ \E m \in 1..(n - 1) : gd_published[m].incident.severity # "high"

\* the fingerprints of the events an incident lists
MemberFingerprints(published) ==
    {calculate_fingerprint(e) : e \in MemberEvents(published)}

\* C18: once an incident that lists an event with fingerprint f has been
\* published, no later published incident lists an event with fingerprint f
C18_NoLaterIncidentForFingerprint ==
    \A n \in 1..Len(gd_published) : \A m \in (n + 1)..Len(gd_published) :
        MemberFingerprints(gd_published[n]) \cap MemberFingerprints(gd_published[m]) = {}


\* C33: the Guardian publishes an incident only when at least one of the
\* incident's member events has severity warning, error or critical; events of
\* severity info alone never produce an incident
C33_NoIncidentFromInfoAlone ==
    \A n \in 1..Len(gd_published) :
        \E e \in MemberEvents(gd_published[n]) :
            e.severity \in {"warning", "error", "critical"}

\* the event a handle_event step has just been given
HandledEvent == gd_event_buffer'[Len(gd_event_buffer')]

\* C34: every event of severity warning or higher whose own fingerprint has
\* not yet been mapped leads, when the Guardian handles it, to a published
\* incident whose event_ids include that event, whatever other events are in
\* the buffer (the event is stamped inside the correlation window and the bus
\* accepts what is published)
C34_EveryNewWarningPublished ==
    [][ ( /\ gd_event_buffer' # gd_event_buffer
          /\ HandledEvent.severity \in {"warning", "error", "critical"}
          /\ HandledEvent.timestamp >= now - gd_correlation_window
          /\ calculate_fingerprint(HandledEvent) \notin gd_incident_fingerprints
          /\ gd_last' # "publish failed" )
        => /\ Len(gd_published') = Len(gd_published) + 1
           /\ \E k \in DOMAIN gd_published'[Len(gd_published')].incident.event_ids :
                 gd_published'[Len(gd_published')].incident.event_ids[k]
                     = HandledEvent.event_id ]_vars
\* ----------------------------------------------------------------------
\* Commander.handle_decision taken alone
\* ----------------------------------------------------------------------

\* C20: handle_decision executes nothing and emits no outcome for an
\* EXECUTE_SAFE_ACTION decision whose proposed action_type is outside the
\* Commander's SAFE set, whatever safety_classification the decision carries,
\* nor for a NO_ACTION decision, nor for a decision without proposed_action
C20_NoOutcomeOutsideSafeSet ==
    (/\ hd_call.handled
     /\ \/ /\ hd_call.decision_type = "EXECUTE_SAFE_ACTION"
           /\ hd_call.proposed_action.action_type \notin hd_call.safe_actions
        \/ hd_call.decision_type = "NO_ACTION"
        \/ hd_call.proposed_action = NoProposedAction)
        => (~hd_call.executed /\ hd_call.outcome = NoOutcome)

\* an EXECUTE_SAFE_ACTION decision that calls itself SAFE and proposes
\* restart_service, refused by a Commander whose SAFE set holds only
\* acknowledge_incident
C20_Witness ==
    /\ hd_call.handled
    /\ hd_call.decision_type = "EXECUTE_SAFE_ACTION"
    /\ hd_call.safety_classification = "SAFE"
    /\ hd_call.proposed_action.action_type = "restart_service"
    /\ hd_call.safe_actions = {"acknowledge_incident"}
    /\ hd_call.publish_ok
    /\ ~hd_call.executed
    /\ hd_call.outcome = NoOutcome

\* ----------------------------------------------------------------------
\* Commander after a failed policy load
\* ----------------------------------------------------------------------

\* execute_action calls made under an approval, over all decisions
ApprovedExecutions ==
    LET RECURSIVE upto(_)
        upto(d) == IF d = 0 THEN 0 ELSE cmd_approved_exec[d] + upto(d - 1)
    IN upto(NumApprovals)

\* C19 as stated: a Commander whose policy failed to load (empty SAFE set)
\* never executes an action and never emits an outcome, whatever decisions
\* and admin approvals arrive
C19_NothingExecutes ==
    cmd_safe_actions = {} => (cmd_exec_total = 0 /\ cmd_last_outcome = NoOutcome)

\* C19 as it holds: a Commander whose policy failed to load executes no
\* EXECUTE_SAFE_ACTION decision; every action it executes is for a
\* REQUEST_APPROVAL decision, under a stored, unexpired approve or force
\* approval_decision
C19_NothingExecutesUnapproved ==
    cmd_safe_actions = {} =>
        /\ cmd_last_outcome.decision_type \in {None, "REQUEST_APPROVAL"}
        /\ cmd_exec_total = ApprovedExecutions

\* with an empty SAFE set, the Commander executed an approved decision and
\* published its outcome
C19_Witness ==
    /\ cmd_safe_actions = {}
    /\ cmd_last_outcome.decision_type = "REQUEST_APPROVAL"
    /\ cmd_last_outcome.action.approval_id = 1
    /\ cmd_last_outcome.status = "succeeded"
    /\ cmd_exec_total = 1

\* ----------------------------------------------------------------------
\* N2 autodispatch: Brain, then Commander
\* ----------------------------------------------------------------------

\* this step is handle_incident at N2 on an incident of severity medium, high
\* or critical, with acknowledge_incident SAFE, no cooldown active and the
\* circuit closed
HandlesDispatchable ==
    /\ br_handled' = br_handled + 1
    /\ br_autonomy_level = "N2"
    /\ "acknowledge_incident" \in br_safe_actions
    /\ br_last'.severity \in {"medium", "high", "critical"}
    /\ ~CooldownActive(now)
    /\ ~BreakerOpen(now)

\* the decision proposes acknowledge_incident for immediate execution
Dispatches(decision) ==
    /\ decision.decision_type = "EXECUTE_SAFE_ACTION"
    /\ decision.proposed_action # NoProposedAction
    /\ decision.proposed_action.action_type = "acknowledge_incident"

\* the Commander handled an EXECUTE_SAFE_ACTION decision of the Brain: one
\* execution, whose outcome is succeeded with execution_time_ms >= 0
ExecutedOnce ==
    /\ hd_call.executed
    /\ Len(ex_call.outcomes) = 1
    /\ ex_call.outcomes[1].status = "succeeded"
    /\ ex_call.outcomes[1].execution_time_ms >= 0

\* C26: with acknowledge_incident SAFE, no active cooldown and a closed
\* circuit, every incident of severity medium, high or critical handled at N2
\* leads to exactly one published EXECUTE_SAFE_ACTION decision proposing
\* acknowledge_incident, and the Commander, handling it, publishes exactly one
\* outcome, succeeded, with execution_time_ms >= 0.
C26_EveryIncidentDispatched ==
    /\ [][HandlesDispatchable
            => (br_last'.published /\ Dispatches(br_last'.decision))]_vars
    /\ []((hd_call.handled /\ hd_call.decision_type = "EXECUTE_SAFE_ACTION")
            => /\ ExecutedOnce
               /\ hd_call.outcome.status = "succeeded")

\* C26 as the code has it: the Brain decides EXECUTE_SAFE_ACTION once, a
\* configured Council that answers BLOCKED or raises turns it into NO_ACTION,
\* and either publish may fail and is then only logged
C26_DispatchedUnlessBlocked ==
    /\ [][HandlesDispatchable
            => /\ Dispatches(br_last'.decided)
               /\ IF br_last'.council \in {"BLOCKED", "raise"}
                  THEN br_last'.decision.decision_type = "NO_ACTION"
                  ELSE br_last'.decision = br_last'.decided]_vars
    /\ []((hd_call.handled /\ hd_call.decision_type = "EXECUTE_SAFE_ACTION")
            => /\ ExecutedOnce
               /\ hd_call.outcome = IF hd_call.publish_ok
                                    THEN create_outcome(ex_call.action,
                                                        "EXECUTE_SAFE_ACTION")
                                    ELSE NoOutcome
               /\ hd_call.publish_ok => hd_call.outcome.status = "succeeded")

\* the second incident was dispatched after the Council approved it, and the
\* Commander published its outcome
C26_Witness ==
    /\ br_handled = 2
    /\ br_last.severity = "medium"
    /\ br_last.council = "APPROVED"
    /\ br_last.published
    /\ Dispatches(br_last.decision)
    /\ hd_call.handled
    /\ hd_call.publish_ok
    /\ hd_call.outcome.status = "succeeded"
    /\ ex_call.action.decision_id = 2
    /\ ex_call.outcomes[1].execution_time_ms = 250

\* ----------------------------------------------------------------------
\* failure loops: Commander outcomes and the Brain's circuit breaker
\* ----------------------------------------------------------------------

\* failure_threshold executions of acknowledge_incident have failed within
\* the failure window, the last of them less than the open duration before t
FailureBurst(t) ==
    /\ Len(lp_failed) >= failure_threshold
    /\ LET last == lp_failed[Len(lp_failed)]
           first == lp_failed[Len(lp_failed) - failure_threshold + 1]
       IN /\ last - first < failure_window
          /\ t - last < circuit_open_duration

\* C28: after failure_threshold executions of an action type with outcome
\* failed or rolled_back within the failure window, the Brain produces no
\* further EXECUTE_SAFE_ACTION decision for that action type until the open
\* duration has elapsed.
C28_NoExecuteAfterFailures ==
    [][(br_handled' = br_handled + 1 /\ FailureBurst(now))
          => ~Dispatches(br_last'.decided)]_vars


\* C37: no action for a REQUEST_APPROVAL decision is executed at a time at or
\* after the expires_at of the approval_request published for that decision
C37_NoExecutionAfterRequestExpiry ==
    [][ \A d \in DecisionIds :
           ( /\ cmd_approved_exec'[d] > cmd_approved_exec[d]
             /\ d \in ReqIds
             /\ xp_expires_at[d] # NoTime )
              => now < xp_expires_at[d] ]_vars
\* ----------------------------------------------------------------------
\* Commander.execute_action
\* ----------------------------------------------------------------------

\* what the execution and the rollback of an action do, read off the action
ExecutionRaises(action) ==
    ~(action.action_type = "acknowledge_incident" /\ action.params_ok)
RollbackRaises(action) ==
    action.action_type = "acknowledge_incident" /\ ~action.params_ok

\* C21: execute_action returns exactly one outcome for every action: succeeded
\* with a result when the execution completes; when it raises (an unknown
\* action type included), rolled_back if the rollback completes and failed if
\* the rollback raises too, in both cases with an error of code
\* EXECUTION_FAILED and no result
C21_OneOutcomePerAction ==
    ex_call.called =>
        /\ Len(ex_call.outcomes) = 1
        /\ LET outcome == ex_call.outcomes[1] IN
           IF ~ExecutionRaises(ex_call.action)
           THEN /\ outcome.status = "succeeded"
                /\ outcome.has_result
                /\ outcome.error_code = None
           ELSE /\ outcome.status = IF RollbackRaises(ex_call.action)
                                    THEN "failed" ELSE "rolled_back"
                /\ outcome.error_code = "EXECUTION_FAILED"
                /\ ~outcome.has_result

C21_Witness ==
    /\ ex_call.called
    /\ ex_call.action.action_type = "acknowledge_incident"
    /\ ~ex_call.action.params_ok
    /\ ex_call.outcomes[1].status = "failed"

\* ----------------------------------------------------------------------
\* Commander.run
\* ----------------------------------------------------------------------

\* run() has been called and has neither returned nor raised
Running == run_pc \notin {"start", "returned", "raised"}

\* C24: a running Commander consumes both streams: every decision and every
\* approval_decision published while it runs is eventually handed to its
\* handler (or the Commander has stopped running).
C24_BothStreamsConsumed ==
    \A k \in {"decision", "approval_decision"}, n \in 1..MaxPublishes :
        (Running /\ run_published[k] >= n)
            ~> (Len(run_delivered[k]) >= n \/ ~Running)

\* ----------------------------------------------------------------------
\* ExternalValidator._retry_with_backoff
\* ----------------------------------------------------------------------

\* the attempts of the call that raised a connection error or a timeout
Transient(attempts) ==
    {i \in 1..Len(attempts) : attempts[i] \in {"APIConnectionError", "TimeoutError"}}

\* what a call that has returned looks like
ReturnedAsClaimed ==
    LET attempts == rt_call.attempts
        last == attempts[Len(attempts)]
    IN /\ Len(attempts) \in 1..3
       /\ rt_call.slept = SubSeq(<<1, 2>>, 1, Len(attempts) - 1)
       /\ \A i \in 1..(Len(attempts) - 1) : i \in Transient(attempts)
       /\ rt_call.result \in [confidence : 0..100, critique : STRING]
       /\ last # None =>
             /\ rt_call.result.confidence = 0
             /\ rt_call.result.critique \in
                    {"authentication failed", "rate limited", "failed", "timeout",
                     "connection failed"}
       /\ last = None => rt_call.result \in AttemptResults
       /\ Len(attempts) \in Transient(attempts) => Len(attempts) = 3

\* C32: the external validator's retry loop always ends with a (confidence,
\* critique) result: a call that keeps failing with connection errors or
\* timeouts is attempted at most three times, sleeping 1 s and then 2 s in
\* between, and then yields (0.0, ERROR...); an authentication error, a
\* rate-limit error or any other error ends the loop after that attempt with
\* (0.0, ERROR...).
C32_RetryLoopTerminates ==
    /\ [](rt_call.pc = "returned" => ReturnedAsClaimed)
    /\ [](Len(rt_call.attempts) <= 3)
    /\ (rt_call.pc = "attempt") ~> (rt_call.pc = "returned")

\* three connection errors or timeouts in a row, with sleeps of 1 s and 2 s
C32_Witness ==
    /\ rt_call.pc = "returned"
    /\ Transient(rt_call.attempts) = {1, 2, 3}
    /\ rt_call.slept = <<1, 2>>
    /\ rt_call.result.confidence = 0

\* ---------------------------------------------------------------- C40
\* C40: however an admin operation interleaves with check_expired_approvals
\* or with another admin operation on the same request, no operation ends
\* with an unhandled error, at most one approval_decision is published, the
\* entry of decisions is the decision published, and a request is never
\* both settled and escalated as expired
C40_PendingMapNeedsNoLock ==
    /\ \A t \in CallerIds : rc_calls[t].pc # "raised"
    /\ Len(rc_published) <= 1
    /\ Len(rc_published) = 1 => rc_decisions = rc_published[1]
    /\ ~(rc_escalated > 0 /\ rc_decisions # NoSettled)

====
